---- MODULE Spec2Model ----
(***************************************************************************)
(* A model of tokio_chacha20: the ChaCha20 stream cipher, the Poly1305     *)
(* hasher, the synchronous nonce cursors and the poll-driven stream        *)
(* readers and writers.                                                    *)
(*                                                                         *)
(* Number representation.  TLC's integers are 32-bit signed, so a u32 of   *)
(* the source is a pair <<hi, lo>> of 16-bit halves, and a BigUint is its  *)
(* little-endian sequence of bytes without trailing zero bytes.  A byte    *)
(* slice is a sequence of 0..255; TLA+ sequences are indexed from 1 where  *)
(* the source indexes from 0.                                              *)
(***************************************************************************)
EXTENDS Integers, Sequences, FiniteSets, TLC

(***************************************************************************)
(* Program constants                                                       *)
(***************************************************************************)
NONCE_BYTES == 12
X_NONCE_BYTES == 24
KEY_BYTES == 32
BLOCK_SIZE == 64
PAR_OUTER_CHUNK_SIZE == 64
PAR_BLOCKS_THRESHOLD == 320
BLOCK_BYTES == 16

Min(a, b) == IF a < b THEN a ELSE b

\* `let v = ..; F(v)`: the value v, computed once, in what follows it
With(v, F(_)) == F(v)

\* .collect::<Vec<_>>(): the elements of f as a stored sequence (TLC evaluates
\* every element once here, not at each later use)
Vec(f) == <<>> \o f

\* buf[from..] of a slice, `from` 0-based
SliceFrom(buf, from) == SubSeq(buf, from + 1, Len(buf))

\* buf[..to] of a slice
SliceTo(buf, to) == SubSeq(buf, 1, to)

(***************************************************************************)
(* Bytes and 32-bit words                                                  *)
(***************************************************************************)
RECURSIVE BitXor(_, _)
BitXor(a, b) ==
  IF a = 0 THEN b
  ELSE IF b = 0 THEN a
  ELSE (((a % 2) + (b % 2)) % 2) + 2 * BitXor(a \div 2, b \div 2)

RECURSIVE BitAnd(_, _)
BitAnd(a, b) ==
  IF a = 0 \/ b = 0 THEN 0
  ELSE ((a % 2) * (b % 2)) + 2 * BitAnd(a \div 2, b \div 2)

\* the XOR of two 4-bit numbers, tabulated once
XorTab == Vec([i \in 1..256 |-> BitXor((i - 1) \div 16, (i - 1) % 16)])

\* u8 ^ u8, a nibble at a time
XorByte(a, b) ==
  XorTab[(a \div 16) * 16 + (b \div 16) + 1] * 16
    + XorTab[(a % 16) * 16 + (b % 16) + 1]

Xor16(a, b) ==
  XorByte(a \div 256, b \div 256) * 256 + XorByte(a % 256, b % 256)

\* u32 ^ u32
XorWord(a, b) == <<Xor16(a[1], b[1]), Xor16(a[2], b[2])>>

\* u32::wrapping_add
wrapping_add(a, b) ==
  LET lo == a[2] + b[2]
  IN  <<(a[1] + b[1] + (lo \div 65536)) % 65536, lo % 65536>>

\* u32::rotate_left, for the rotation amounts 0 < r <= 16
rotate_left(w, r) ==
  IF r = 16 THEN <<w[2], w[1]>>
  ELSE <<((w[1] * (2 ^ r)) % 65536) + (w[2] \div (2 ^ (16 - r))),
         ((w[2] * (2 ^ r)) % 65536) + (w[1] \div (2 ^ (16 - r)))>>

\* `n as u32` for a small count n
U32(n) == <<(n \div 65536) % 65536, n % 65536>>

\* u32::from_le_bytes of the 4 bytes of b that start at 0-based offset o
from_le_bytes(b, o) ==
  <<b[o + 4] * 256 + b[o + 3], b[o + 2] * 256 + b[o + 1]>>

\* u32::to_le_bytes
to_le_bytes(w) == <<w[2] % 256, w[2] \div 256, w[1] % 256, w[1] \div 256>>

\* words.iter().flat_map(|n| n.to_le_bytes()).collect()
FlatLeBytes(words) ==
  Vec([i \in 1..(4 * Len(words)) |->
         to_le_bytes(words[((i - 1) \div 4) + 1])[((i - 1) % 4) + 1]])

(***************************************************************************)
(* cipher.rs: the ChaCha20 block function                                  *)
(***************************************************************************)
\* b"expand 32-byte k"
CONSTANT_BYTES ==
  <<101, 120, 112, 97, 110, 100, 32, 51, 50, 45, 98, 121, 116, 101, 32, 107>>

\* one numbered step of quarter_round, `*a = a.wrapping_add(*b); *d ^= *a;
\* *d = d.rotate_left(r)`: the new <<a, d>>
quarter_round_step(a, b, d, r) ==
  With(wrapping_add(a, b), LAMBDA a1 : <<a1, rotate_left(XorWord(d, a1), r)>>)

\* a faulty quarter_round whose last rotation is by 8, not by 7
quarter_round_last_by_8(a, b, c, d) ==
  LET s1 == quarter_round_step(a, b, d, 16)
      s2 == quarter_round_step(c, s1[2], b, 12)
      s3 == quarter_round_step(s1[1], s2[2], s1[2], 8)
      s4 == quarter_round_step(s2[1], s3[2], s2[2], 8)
  IN  <<s3[1], s4[2], s4[1], s3[2]>>

\* fn quarter_round(a, b, c, d): the new <<a, b, c, d>>; s1 and s3 are the
\* <<a, d>> of the steps 1 and 3, s2 and s4 the <<c, b>> of the steps 2 and 4
quarter_round(a, b, c, d) ==
  With(quarter_round_step(a, b, d, 16), LAMBDA s1 :
  With(quarter_round_step(c, s1[2], b, 12), LAMBDA s2 :
  With(quarter_round_step(s1[1], s2[2], s1[2], 8), LAMBDA s3 :
  With(quarter_round_step(s2[1], s3[2], s2[2], 7), LAMBDA s4 :
    <<s3[1], s4[2], s4[1], s3[2]>>))))

\* State::quarter_round on the 0-based word indices a, b, c, d
State_quarter_round(vec, a, b, c, d) ==
  With(quarter_round(vec[a + 1], vec[b + 1], vec[c + 1], vec[d + 1]),
       LAMBDA q : [vec EXCEPT ![a + 1] = q[1], ![b + 1] = q[2],
                              ![c + 1] = q[3], ![d + 1] = q[4]])

\* the index arguments of the eight quarter_round calls of the loop body of
\* State::inner_block, in order
QR_ARGS ==
  << <<0, 4, 8, 12>>, <<1, 5, 9, 13>>, <<2, 6, 10, 14>>, <<3, 7, 11, 15>>,
     <<0, 5, 10, 15>>, <<1, 6, 11, 12>>, <<2, 7, 8, 13>>, <<3, 4, 9, 14>> >>

RECURSIVE QuarterRounds(_, _)
\* the quarter_round calls k..8 of the loop body (the test of Len makes TLC
\* evaluate one call before it starts the next)
QuarterRounds(vec, k) ==
  IF k > Len(QR_ARGS) THEN vec
  ELSE With(State_quarter_round(vec, QR_ARGS[k][1], QR_ARGS[k][2],
                                QR_ARGS[k][3], QR_ARGS[k][4]),
            LAMBDA next :
              IF Len(next) = 16 THEN QuarterRounds(next, k + 1) ELSE next)

\* one iteration of the loop of State::inner_block
DoubleRound(vec) == QuarterRounds(vec, 1)

RECURSIVE Rounds(_, _)
\* n iterations of the loop of State::inner_block
Rounds(vec, n) ==
  IF n = 0 THEN vec
  ELSE With(DoubleRound(vec),
            LAMBDA next : IF Len(next) = 16 THEN Rounds(next, n - 1) ELSE next)

\* Block::new
Block_new(key, nonce, counter) ==
  [constant |-> Vec([i \in 1..4 |-> from_le_bytes(CONSTANT_BYTES, 4 * (i - 1))]),
   nonce    |-> Vec([i \in 1..3 |-> from_le_bytes(nonce, 4 * (i - 1))]),
   key      |-> Vec([i \in 1..8 |-> from_le_bytes(key, 4 * (i - 1))]),
   counter  |-> counter]

\* Block::next_nth_state
next_nth_state(self, n) ==
  LET b == wrapping_add(self.counter, U32(n))
  IN  self.constant \o self.key \o <<b>> \o self.nonce

\* the state hchacha20 starts from: the key, the last 12 bytes of the 16-byte
\* nonce as the nonce, its first 4 as the counter
hchacha20_state(key, nonce) ==
  next_nth_state(Block_new(key, SliceFrom(nonce, 4), from_le_bytes(nonce, 0)),
                 0)

\* the result of hchacha20: the first and the last four words of the state
\* after inner_block
hchacha20_key(state) ==
  FlatLeBytes(SubSeq(state, 1, 4)) \o FlatLeBytes(SubSeq(state, 13, 16))

\* the keys and nonces of the model's runs: a key with a 12-byte nonce
\* (ChaCha20) and another key with a 24-byte nonce (XChaCha20)
KeyNonces ==
  << [key |-> Vec([i \in 1..KEY_BYTES |-> i - 1]),
      nonce |-> <<0, 0, 0, 0, 0, 0, 0, 74, 0, 0, 0, 0>>],
     [key |-> Vec([i \in 1..KEY_BYTES |-> (7 * i + 3) % 256]),
      nonce |-> Vec([i \in 1..X_NONCE_BYTES |-> (11 * i + 64) % 256])] >>

\* the nonce of test_block (RFC 8439 section 2.3.2); its key is KeyNonces[1].key
TEST_BLOCK_NONCE == <<0, 0, 0, 9, 0, 0, 0, 74, 0, 0, 0, 0>>

\* the most n of next_nth_state and next_nth_block in the block runs
MaxNth == 2

\* the counters 2^32 - 2 and 2^32 - 1 of a cipher that has run for long
LAST_COUNTERS == << <<65535, 65534>>, <<65535, 65535>> >>

\* the states the runs start from: the state h hchacha20 builds of the second
\* key and nonce, the states of the blocks 0, 1 and 2 of either run, of the
\* blocks 1 .. 1 + MaxNth of test_block, of the last two blocks of the first
\* run, and the states hchacha20 builds of the first key and the nonces of
\* the hchacha20 calls
KnownStates ==
  With(hchacha20_state(KeyNonces[2].key, SliceTo(KeyNonces[2].nonce, 16)),
       LAMBDA h :
         <<h>>
           \o Vec([c \in 1..3 |->
                     next_nth_state(Block_new(KeyNonces[1].key,
                                              KeyNonces[1].nonce, U32(0)),
                                    c - 1)])
           \o Vec([c \in 1..3 |->
                     next_nth_state(
                       Block_new(hchacha20_key(Rounds(h, 10)),
                                 <<0, 0, 0, 0>>
                                   \o SubSeq(KeyNonces[2].nonce, 17, 24),
                                 U32(0)),
                       c - 1)])
           \o Vec([c \in 1..(MaxNth + 1) |->
                     next_nth_state(Block_new(KeyNonces[1].key,
                                              TEST_BLOCK_NONCE, U32(0)),
                                    c)])
           \o Vec([c \in 1..2 |->
                     next_nth_state(Block_new(KeyNonces[1].key,
                                              KeyNonces[1].nonce,
                                              LAST_COUNTERS[c]),
                                    0)])
           \o << hchacha20_state(KeyNonces[1].key,
                                 <<0, 0, 0, 9, 0, 0, 0, 74,
                                   0, 0, 0, 0, 49, 65, 89, 39>>),
                 hchacha20_state(KeyNonces[1].key,
                                 SliceTo(KeyNonces[2].nonce, 16)) >>)

\* the 10 double rounds of every state of KnownStates, computed once
KnownRounds == Vec([k \in 1..Len(KnownStates) |-> Rounds(KnownStates[k], 10)])

\* State::inner_block: 10 double rounds (looked up for a state of KnownStates)
inner_block(vec) ==
  With(KnownStates, LAMBDA known :
    IF \E k \in 1..Len(known) : known[k] = vec
    THEN KnownRounds[CHOOSE k \in 1..Len(known) : known[k] = vec]
    ELSE Rounds(vec, 10))

\* State::add
State_add(vec, other) ==
  Vec([i \in 1..16 |-> wrapping_add(vec[i], other[i])])

\* State::byte_vec
byte_vec(vec) == FlatLeBytes(vec)

\* a faulty next_nth_block that returns the working state and leaves out
\* state.add
next_nth_block_without_add(self, n) == inner_block(next_nth_state(self, n))

\* Block::next_nth_block
next_nth_block(self, n) ==
  With(next_nth_state(self, n),
       LAMBDA state : State_add(state, inner_block(state)))

\* a faulty increment_counter that stops at u32::MAX (saturating_add)
increment_counter_saturating(self, n) ==
  IF self.counter[1] = 65535 /\ self.counter[2] + n > 65535
  THEN [self EXCEPT !.counter = <<65535, 65535>>]
  ELSE [self EXCEPT !.counter = wrapping_add(self.counter, U32(n))]

\* Block::increment_counter
increment_counter(self, n) ==
  [self EXCEPT !.counter = wrapping_add(self.counter, U32(n))]

\* Block::nonce
Block_nonce(self) == FlatLeBytes(self.nonce)

\* Block::key
Block_key(self) == FlatLeBytes(self.key)

(***************************************************************************)
(* cipher.rs: StreamCipher                                                 *)
(***************************************************************************)
\* Option::None
None == <<>>

\* fn xor(buf, other): the number of bytes XORed
xor_size(buf, other) == Min(Len(buf), Len(other))

\* a faulty xor that adds the keystream byte instead of XORing it
xor_by_addition(buf, other) ==
  LET size == xor_size(buf, other)
  IN  Vec([i \in 1..Len(buf) |->
             IF i <= size THEN (buf[i] + other[i]) % 256 ELSE buf[i]])

\* fn xor(buf, other): buf afterwards
xor(buf, other) ==
  LET size == xor_size(buf, other)
  IN  Vec([i \in 1..Len(buf) |->
             IF i <= size THEN XorByte(buf[i], other[i]) ELSE buf[i]])

\* buf.chunks_exact(n).count()
chunks_exact_count(buf, n) == Len(buf) \div n

\* buf.chunks(n).count()
chunks_count(buf, n) == (Len(buf) + n - 1) \div n

\* buf.chunks_exact_mut(n).into_remainder()
into_remainder(buf, n) == SliceFrom(buf, chunks_exact_count(buf, n) * n)

\* the closure xor_full_block of encrypt_ applied to (i, c)
xor_full_block(block, i, c) == xor(c, byte_vec(next_nth_block(block, i)))

\* buf.chunks_exact_mut(BLOCK_SIZE).enumerate().map(|(j, c)| (j + base, c))
\*    .for_each(xor_full_block): the full chunks afterwards, concatenated
SerialBlocks(block, buf, base) ==
  LET n == chunks_exact_count(buf, BLOCK_SIZE)
      chunk == Vec([j \in 1..n |->
                      xor_full_block(block, (j - 1) + base,
                                     SubSeq(buf, (j - 1) * BLOCK_SIZE + 1,
                                            j * BLOCK_SIZE))])
  IN  Vec([p \in 1..(n * BLOCK_SIZE) |->
             chunk[((p - 1) \div BLOCK_SIZE) + 1][((p - 1) % BLOCK_SIZE) + 1]])

\* a faulty parallel path that numbers the chunks of every outer chunk from 0
\* (j, not j + i * PAR_OUTER_CHUNK_SIZE)
ParallelBlocks_restarting(block, buf) ==
  LET outer_size == BLOCK_SIZE * PAR_OUTER_CHUNK_SIZE
      outer == Vec([i \in 1..chunks_count(buf, outer_size) |->
                      SerialBlocks(block,
                                   SubSeq(buf, (i - 1) * outer_size + 1,
                                          Min(Len(buf), i * outer_size)),
                                   0)])
  IN  Vec([p \in 1..(chunks_exact_count(buf, BLOCK_SIZE) * BLOCK_SIZE) |->
             outer[((p - 1) \div outer_size) + 1][((p - 1) % outer_size) + 1]])

\* buf.par_chunks_mut(BLOCK_SIZE * PAR_OUTER_CHUNK_SIZE).enumerate()
\*    .for_each(|(i, c)| c.chunks_exact_mut(BLOCK_SIZE) ...): the full chunks
\* afterwards, concatenated (every outer chunk but the last is a whole number
\* of blocks)
ParallelBlocks(block, buf) ==
  LET outer_size == BLOCK_SIZE * PAR_OUTER_CHUNK_SIZE
      outer == Vec([i \in 1..chunks_count(buf, outer_size) |->
                      SerialBlocks(block,
                                   SubSeq(buf, (i - 1) * outer_size + 1,
                                          Min(Len(buf), i * outer_size)),
                                   (i - 1) * PAR_OUTER_CHUNK_SIZE)])
  IN  Vec([p \in 1..(chunks_exact_count(buf, BLOCK_SIZE) * BLOCK_SIZE) |->
             outer[((p - 1) \div outer_size) + 1][((p - 1) % outer_size) + 1]])

\* a faulty StreamCipher::new that starts the counter at 0
StreamCipher_new_at_zero(key, nonce) ==
  [block |-> Block_new(key, nonce, U32(0)), leftover |-> None]

\* StreamCipher::new
StreamCipher_new(key, nonce) ==
  [block |-> Block_new(key, nonce, U32(1)), leftover |-> None]

\* a faulty encrypt_blocks that advances the counter by the full blocks only,
\* not by the block the last partial chunk used
encrypt_blocks_exact_count(self, buf, par) ==
  LET full == IF par THEN ParallelBlocks(self.block, buf)
                     ELSE SerialBlocks(self.block, buf, 0)
      i == chunks_exact_count(buf, BLOCK_SIZE)
      c == into_remainder(buf, BLOCK_SIZE)
      state == next_nth_block(self.block, i)
      size == xor_size(c, byte_vec(state))
      last == IF c # <<>> THEN xor(c, byte_vec(state)) ELSE <<>>
  IN  [self |-> [block |-> increment_counter(self.block, i),
                 leftover |-> IF c # <<>> THEN <<state, size>> ELSE None],
       buf |-> full \o last]

\* the part of StreamCipher::encrypt_ after the leftover is consumed
\* ("Milk the blocks" and "Last `buf` chuck"); buf is &mut buf[pos..]
encrypt_blocks(self, buf, par) ==
  With(into_remainder(buf, BLOCK_SIZE), LAMBDA c :
  With(next_nth_block(self.block, chunks_exact_count(buf, BLOCK_SIZE)),
       LAMBDA state :
    [self |-> [block |-> increment_counter(self.block,
                                           chunks_count(buf, BLOCK_SIZE)),
               leftover |-> IF c # <<>>
                            THEN <<state, xor_size(c, byte_vec(state))>>
                            ELSE None],
     buf |-> (IF par THEN ParallelBlocks(self.block, buf)
                     ELSE SerialBlocks(self.block, buf, 0))
               \o (IF c # <<>> THEN xor(c, byte_vec(state)) ELSE <<>>)]))

\* a faulty encrypt_ that advances the counter whenever it takes bytes of the
\* leftover
encrypt_counting_leftover(self, buf, par) ==
  IF self.leftover # None
  THEN LET remaining == SliceFrom(byte_vec(self.leftover[1]), self.leftover[2])
           size == xor_size(buf, remaining)
           head == xor(buf, remaining)
           bumped == increment_counter(self.block, 1)
       IN  IF self.leftover[2] + size # Len(byte_vec(self.leftover[1]))
           THEN [self |-> [block |-> bumped,
                           leftover |-> <<self.leftover[1],
                                          self.leftover[2] + size>>],
                 buf |-> head]
           ELSE LET r == encrypt_blocks([block |-> bumped, leftover |-> None],
                                        SliceFrom(head, size), par)
                IN  [self |-> r.self, buf |-> SliceTo(head, size) \o r.buf]
  ELSE encrypt_blocks(self, buf, par)

\* StreamCipher::encrypt_: the cipher and the buffer afterwards
encrypt_(self, buf, par) ==
  IF self.leftover # None
  THEN With(SliceFrom(byte_vec(self.leftover[1]), self.leftover[2]),
            LAMBDA remaining :
       With(xor_size(buf, remaining), LAMBDA size :
       With(xor(buf, remaining), LAMBDA head :
         IF self.leftover[2] + size # Len(byte_vec(self.leftover[1]))
         THEN [self |-> [self EXCEPT !.leftover =
                                       <<self.leftover[1],
                                         self.leftover[2] + size>>],
               buf |-> head]
         ELSE With(encrypt_blocks([self EXCEPT !.leftover = None],
                                  SliceFrom(head, size), par),
                   LAMBDA r : [self |-> r.self,
                               buf |-> SliceTo(head, size) \o r.buf]))))
  ELSE encrypt_blocks(self, buf, par)

\* `par` of StreamCipher::encrypt: TRUE is ParOrNot::Parallel, FALSE is
\* ParOrNot::Serial
ParOrNot(buf) == PAR_BLOCKS_THRESHOLD < chunks_count(buf, BLOCK_SIZE)

\* StreamCipher::encrypt
encrypt(self, buf) == encrypt_(self, buf, ParOrNot(buf))

\* a faulty chacha20_nonce_from_xnonce that takes the last 12 bytes of the
\* nonce and puts no zero bytes before them
chacha20_nonce_from_xnonce_unpadded(nonce) ==
  Vec([i \in 1..NONCE_BYTES |-> nonce[i + 12]])

\* chacha20_nonce_from_xnonce
chacha20_nonce_from_xnonce(nonce) ==
  Vec([i \in 1..NONCE_BYTES |-> IF i <= 4 THEN 0 ELSE nonce[i + 12]])

\* a faulty hchacha20 that takes the words of the finished block, the initial
\* state added back
hchacha20_with_add(key, nonce) ==
  hchacha20_key(next_nth_block(Block_new(key, SliceFrom(nonce, 4),
                                         from_le_bytes(nonce, 0)), 0))

\* fn hchacha20(key, nonce: [u8; 16])
hchacha20(key, nonce) == hchacha20_key(inner_block(hchacha20_state(key, nonce)))

\* StreamCipher::new_x
StreamCipher_new_x(key, nonce) ==
  StreamCipher_new(hchacha20(key, SliceTo(nonce, 16)),
                   chacha20_nonce_from_xnonce(nonce))

(***************************************************************************)
(* num_bigint::BigUint, as little-endian bytes without trailing zeros      *)
(***************************************************************************)
\* the largest element of a non-empty set of numbers
MaxOf(S) == CHOOSE m \in S : \A n \in S : n <= m

\* the digits without the trailing (most significant) zero bytes
BigNorm(a) ==
  LET nz == {i \in 1..Len(a) : a[i] # 0}
  IN  IF nz = {} THEN <<>> ELSE SubSeq(a, 1, MaxOf(nz))

Digit(a, i) == IF 1 <= i /\ i <= Len(a) THEN a[i] ELSE 0

\* the base-256 digits of sum(cols[k] * 256^(k-1)) for columns below 2^24:
\* the three bytes of every column are added into their places (d, below 768),
\* then the carries of d (e, below 259) and of e (f, below 257), and the last
\* carry into digit k is 1 exactly when a digit of value 256 below k is
\* followed only by digits of value 255
Carry(cols) ==
  LET n == Len(cols) + 4
      c(k) == Digit(cols, k)
      d == Vec([k \in 1..n |-> (c(k) % 256) + ((c(k - 1) \div 256) % 256)
                                 + (c(k - 2) \div 65536)])
      e == Vec([k \in 1..n |->
                  (d[k] % 256) + (IF k > 1 THEN d[k - 1] \div 256 ELSE 0)])
      f == Vec([k \in 1..n |->
                  (e[k] % 256) + (IF k > 1 THEN e[k - 1] \div 256 ELSE 0)])
      cin(k) == \E j \in 1..(k - 1) :
                   /\ f[j] = 256
                   /\ \A i \in (j + 1)..(k - 1) : f[i] = 255
  IN  Vec([k \in 1..n |-> (f[k] + (IF cin(k) THEN 1 ELSE 0)) % 256])

\* BigUint::from_bytes_le
from_bytes_le(bytes) == BigNorm(bytes)

\* BigUint::to_bytes_le
to_bytes_le(a) == IF a = <<>> THEN <<0>> ELSE a

\* a + b
BigAdd(a, b) ==
  LET n == IF Len(a) < Len(b) THEN Len(b) ELSE Len(a)
  IN  BigNorm(Carry(Vec([i \in 1..n |-> Digit(a, i) + Digit(b, i)])))

RECURSIVE ColSum(_, _, _, _, _)
\* sum of a[i] * b[k + 1 - i] for i in lo..hi
ColSum(a, b, k, lo, hi) ==
  IF lo > hi THEN 0
  ELSE IF lo = hi THEN Digit(a, lo) * Digit(b, k + 1 - lo)
  ELSE ColSum(a, b, k, lo, (lo + hi) \div 2)
         + ColSum(a, b, k, ((lo + hi) \div 2) + 1, hi)

\* a * b
BigMul(a, b) ==
  IF a = <<>> \/ b = <<>> THEN <<>>
  ELSE BigNorm(Carry(Vec([k \in 1..(Len(a) + Len(b) - 1) |->
                            ColSum(a, b, k, 1, Min(Len(a), k))])))

\* a >= b
BigGe(a, b) ==
  LET n == IF Len(a) < Len(b) THEN Len(b) ELSE Len(a)
      diff == {i \in 1..n : Digit(a, i) # Digit(b, i)}
  IN  diff = {} \/ Digit(a, MaxOf(diff)) > Digit(b, MaxOf(diff))

\* a - b, for a >= b: digit k borrows exactly when a digit below k is smaller
\* in a than in b and the digits between are equal
BigSub(a, b) ==
  LET bin(k) == \E j \in 1..(k - 1) :
                   /\ a[j] < Digit(b, j)
                   /\ \A i \in (j + 1)..(k - 1) : a[i] = Digit(b, i)
  IN  BigNorm(Vec([k \in 1..Len(a) |->
                     (a[k] - Digit(b, k) - (IF bin(k) THEN 1 ELSE 0) + 512) % 256]))

\* BigUint::new(vec![2]).pow(130) - BigUint::new(vec![5])
P1305 == <<251>> \o Vec([i \in 1..15 |-> 255]) \o <<3>>

\* x / 2^130
BigHi130(x) ==
  IF Len(x) < 17 THEN <<>>
  ELSE BigNorm(Vec([j \in 1..(Len(x) - 16) |->
                      (x[16 + j] \div 4) + (Digit(x, 17 + j) % 4) * 64]))

\* x mod 2^130
BigLo130(x) ==
  IF Len(x) < 17 THEN x ELSE BigNorm(SliceTo(x, 16) \o <<x[17] % 4>>)

RECURSIVE BigRemP(_)
\* x % p for p = 2^130 - 5: since 2^130 = 5 (mod p), the bits above 2^130
\* fold into the low part five-fold until the value is below 2^130
BigRemP(x) ==
  IF BigHi130(x) # <<>>
  THEN BigRemP(BigAdd(BigLo130(x), BigMul(BigHi130(x), <<5>>)))
  ELSE IF BigGe(x, P1305) THEN BigSub(x, P1305)
  ELSE x

(***************************************************************************)
(* mac.rs: Poly1305                                                        *)
(***************************************************************************)
\* fn clamp_r
clamp_r(r) ==
  Vec([i \in 1..BLOCK_BYTES |->
         IF i \in {4, 8, 12, 16} THEN BitAnd(r[i], 15)
         ELSE IF i \in {5, 9, 13} THEN BitAnd(r[i], 252)
         ELSE r[i]])

\* fn r(key)
key_r(key) == SliceTo(key, BLOCK_BYTES)

\* fn s(key)
key_s(key) == SliceFrom(key, BLOCK_BYTES)

\* fn calc_const
calc_const(key) ==
  [r |-> from_bytes_le(clamp_r(key_r(key))),
   s |-> from_bytes_le(key_s(key)),
   p |-> P1305]

\* a faulty calc_cum that leaves out the reduction modulo p
calc_cum_unreduced(c, cum, block) ==
  BigMul(c.r, BigAdd(cum, from_bytes_le(block \o <<1>>)))

\* a faulty calc_cum that pads a short block with zeros to 16 bytes before
\* the byte 0x01
calc_cum_padded(c, cum, block) ==
  LET padded == block \o Vec([i \in 1..(BLOCK_BYTES - Len(block)) |-> 0])
  IN  BigRemP(BigMul(c.r, BigAdd(cum, from_bytes_le(padded \o <<1>>))))

\* fn calc_cum
calc_cum(c, cum, block) ==
  LET n == from_bytes_le(block \o <<1>>)
  IN  BigRemP(BigMul(c.r, BigAdd(cum, n)))

\* fn calc_mac
calc_mac(c, cum) ==
  LET bytes == to_bytes_le(BigAdd(cum, c.s))
      trunc == SliceTo(bytes, Min(Len(bytes), 16))
  IN  trunc \o Vec([i \in 1..(16 - Len(trunc)) |-> 0])

\* Poly1305Hasher::new
Poly1305Hasher_new(key) ==
  [c |-> calc_const(key), block |-> <<>>, cum |-> <<>>]

RECURSIVE update_without_buffer(_, _)
\* a faulty update that starts its block anew at every call and so forgets
\* the bytes an earlier call left in self.block
update_without_buffer(self, msg) ==
  LET n == Min(Len(msg), BLOCK_BYTES)
      block == SliceTo(msg, n)
  IN  IF Len(block) # BLOCK_BYTES
      THEN [self EXCEPT !.block = block]
      ELSE update_without_buffer(
             [self EXCEPT !.cum = calc_cum(self.c, self.cum, block),
                          !.block = <<>>],
             SliceFrom(msg, n))

RECURSIVE Poly1305Hasher_update(_, _)
\* Poly1305Hasher::update: one iteration of the loop and the rest of it
Poly1305Hasher_update(self, msg) ==
  LET msg_unfilled == BLOCK_BYTES - Len(self.block)
      n == Min(Len(msg), msg_unfilled)
      block == self.block \o SliceTo(msg, n)
  IN  IF Len(block) # BLOCK_BYTES
      THEN [self EXCEPT !.block = block]
      ELSE Poly1305Hasher_update(
             [self EXCEPT !.cum = calc_cum(self.c, self.cum, block),
                          !.block = <<>>],
             SliceFrom(msg, n))

\* Poly1305Hasher::finalize
Poly1305Hasher_finalize(self) ==
  LET cum == IF self.block = <<>> THEN self.cum
             ELSE calc_cum(self.c, self.cum, self.block)
  IN  calc_mac(self.c, cum)

RECURSIVE mac_chunks(_, _, _)
\* msg.chunks(BLOCK_BYTES).for_each(|block| cum = calc_cum(&c, &cum, block))
mac_chunks(c, cum, msg) ==
  IF msg = <<>> THEN cum
  ELSE LET n == Min(Len(msg), BLOCK_BYTES)
           next == calc_cum(c, cum, SliceTo(msg, n))
       IN  IF Len(next) >= 0 THEN mac_chunks(c, next, SliceFrom(msg, n))
           ELSE next

\* fn poly1305_mac
poly1305_mac(key, msg) ==
  LET c == calc_const(key)
  IN  calc_mac(c, mac_chunks(c, <<>>, msg))

\* a faulty key generation that takes the block of counter 1, the first block
\* of the keystream of the user data
poly1305_key_gen_counter_one(key, nonce) ==
  SliceTo(byte_vec(next_nth_block(Block_new(key, nonce, U32(1)), 0)), KEY_BYTES)

\* fn poly1305_key_gen
poly1305_key_gen(key, nonce) ==
  SliceTo(byte_vec(next_nth_block(Block_new(key, nonce, U32(0)), 0)), KEY_BYTES)

\* match nonce { Nonce(nonce) => StreamCipher::new(key, nonce),
\*               XNonce(nonce) => StreamCipher::new_x(key, nonce) }
Cipher_of(key, nonce) ==
  IF Len(nonce) = NONCE_BYTES THEN StreamCipher_new(key, nonce)
  ELSE StreamCipher_new_x(key, nonce)

(***************************************************************************)
(* Poll results and the transport under the streams                        *)
(***************************************************************************)
\* Poll::Pending, Poll::Ready(Ok(v)) and Poll::Ready(Err(kind))
Pending == <<"Pending">>
\* a poll whose loop never ends: it returns nothing
Diverges == <<"Diverges">>
Ok(v) == <<"Ok", v>>
Err(kind) == <<"Err", kind>>

\* the AsyncWrite under a writer: w.wire holds the bytes it has accepted; in
\* one call it accepts at most w.chunk bytes, and it answers Pending once it
\* has accepted w.budget bytes since the caller's poll began
W_poll_write(w, buf) ==
  IF w.budget = 0 THEN [w |-> w, result |-> Pending]
  ELSE LET n == Min(Len(buf), Min(w.chunk, w.budget))
       IN  [w |-> [w EXCEPT !.wire = @ \o SliceTo(buf, n),
                            !.budget = @ - n],
            result |-> Ok(n)]

\* the AsyncRead under a reader: it hands out the bytes of r.wire from r.pos
\* on, at most r.chunk a call and no more than the `rem` bytes the ReadBuf has
\* room for; with no byte left it answers Pending, or fills nothing (end of
\* file) once the writing side has shut down; a transport in trouble answers
\* the error r.fail and fills nothing
R_poll_read(r, rem) ==
  LET avail == Len(r.wire) - r.pos
      n == Min(rem, Min(r.chunk, avail))
  IN  IF r.fail # None THEN [r |-> r, data |-> <<>>, result |-> Err(r.fail[1])]
      ELSE IF avail = 0 /\ ~r.eof
      THEN [r |-> r, data |-> <<>>, result |-> Pending]
      ELSE [r |-> [r EXCEPT !.pos = @ + n],
            data |-> SubSeq(r.wire, r.pos + 1, r.pos + n),
            result |-> Ok(<<>>)]

(***************************************************************************)
(* stream/write.rs                                                         *)
(***************************************************************************)
\* WriteAllState::new
WriteAllState_new == [buf_pos |-> 0]

RECURSIVE WriteAllState_poll_pending_on_zero(_, _, _)
\* a faulty poll that answers Pending when the transport takes no byte
WriteAllState_poll_pending_on_zero(self, w, buf) ==
  LET rest == SliceFrom(buf, self.buf_pos)
  IN  IF rest = <<>> THEN [self |-> self, w |-> w, result |-> Ok(<<>>)]
      ELSE LET r == W_poll_write(w, rest)
           IN  IF r.result = Pending \/ r.result[2] = 0
               THEN [self |-> self, w |-> r.w, result |-> Pending]
               ELSE WriteAllState_poll_pending_on_zero(
                      [self EXCEPT !.buf_pos = @ + r.result[2]], r.w, buf)

RECURSIVE WriteAllState_poll(_, _, _)
\* WriteAllState::poll: the state, the transport and the result afterwards
WriteAllState_poll(self, w, buf) ==
  LET rest == SliceFrom(buf, self.buf_pos)
  IN  IF rest = <<>> THEN [self |-> self, w |-> w, result |-> Ok(<<>>)]
      ELSE LET r == W_poll_write(w, rest)
           IN  IF r.result = Pending
               THEN [self |-> self, w |-> r.w, result |-> Pending]
               ELSE LET n == r.result[2]
                        self1 == [self EXCEPT !.buf_pos = @ + n]
                    IN  IF n = 0
                        THEN [self |-> self1, w |-> r.w,
                              result |-> Err("WriteZero")]
                        ELSE WriteAllState_poll(self1, r.w, buf)

\* `let otk = poly1305_key_gen(cipher.block().key(), cipher.block().nonce())`
otk(cipher) ==
  poly1305_key_gen(Block_key(cipher.block), Block_nonce(cipher.block))

\* ChaCha20WriteState::new
ChaCha20WriteState_new(key, nonce, hash) ==
  With(Cipher_of(key, nonce), LAMBDA cipher :
    [cipher |-> cipher,
     buf |-> <<>>,
     buf_pos |-> 0,
     hasher |-> IF hash THEN Poly1305Hasher_new(otk(cipher)) ELSE None])

\* a faulty fill that stages and encrypts the caller's buffer in every poll,
\* also while bytes of an earlier poll wait in the inner buffer
fill_inner_buffer_every_poll(self, buf) ==
  LET e == encrypt(self.cipher, buf)
  IN  [cipher |-> e.self,
       buf |-> e.buf,
       buf_pos |-> 0,
       hasher |-> IF self.hasher # None
                  THEN Poly1305Hasher_update(self.hasher, e.buf)
                  ELSE None]

\* "Fill the inner buffer with encrypted data if it's empty"
fill_inner_buffer(self, buf) ==
  IF Len(self.buf) = self.buf_pos
  THEN With(encrypt(self.cipher, buf), LAMBDA e :
         [cipher |-> e.self,
          buf |-> e.buf,
          buf_pos |-> 0,
          hasher |-> IF self.hasher # None
                     THEN Poly1305Hasher_update(self.hasher, e.buf)
                     ELSE None])
  ELSE self

\* a faulty poll that answers Ok(buf.len()) after the first write the
\* transport takes, whether or not it took the whole inner buffer
ChaCha20WriteState_poll_once(self, w, buf) ==
  LET self1 == fill_inner_buffer(self, buf)
      r == W_poll_write(w, SliceFrom(self1.buf, self1.buf_pos))
  IN  IF r.result[1] # "Ok"
      THEN [self |-> self1, w |-> r.w, result |-> r.result]
      ELSE [self |-> [self1 EXCEPT !.buf_pos = @ + r.result[2]],
            w |-> r.w, result |-> Ok(Len(buf))]

RECURSIVE ChaCha20WriteState_poll(_, _, _)
\* ChaCha20WriteState::poll: the state, the transport and the result
\* afterwards; self1 is the state after the inner buffer is filled, r the
\* answer of the transport's poll_write, self2 the state after
\* `self.buf_pos += amt`. When the transport takes no byte of a staged buffer
\* that is not empty, the loop starts again in the state it was in, and with
\* a transport that answers as before it never ends
ChaCha20WriteState_poll(self, w, buf) ==
  With(fill_inner_buffer(self, buf), LAMBDA self1 :
  With(W_poll_write(w, SliceFrom(self1.buf, self1.buf_pos)), LAMBDA r :
    IF r.result[1] # "Ok"
    THEN [self |-> self1, w |-> r.w, result |-> r.result]
    ELSE With([self1 EXCEPT !.buf_pos = @ + r.result[2]], LAMBDA self2 :
           IF Len(self2.buf) = self2.buf_pos
           THEN [self |-> self2, w |-> r.w, result |-> Ok(Len(buf))]
           ELSE IF r.result[2] = 0
           THEN [self |-> self2, w |-> r.w, result |-> Diverges]
           ELSE ChaCha20WriteState_poll(self2, r.w, buf))))

\* NonceCiphertextWriter::new
NonceCiphertextWriter_new(key, write_nonce, hash, nonce) ==
  [nonce |-> IF write_nonce THEN nonce ELSE None,
   write_all_nonce |-> WriteAllState_new,
   chacha20 |-> ChaCha20WriteState_new(key, nonce, hash)]

\* NonceCiphertextWriter::poll_write after `this.write_all_nonce.poll(..)`
\* gave a (or was not called)
NonceCiphertextWriter_ciphertext(this, a, buf) ==
  With([this EXCEPT !.write_all_nonce = a.self], LAMBDA this1 :
    IF a.result[1] # "Ok"
    THEN [self |-> this1, w |-> a.w, result |-> a.result]
    ELSE With(ChaCha20WriteState_poll(this1.chacha20, a.w, buf), LAMBDA c :
           [self |-> [this1 EXCEPT !.chacha20 = c.self],
            w |-> c.w, result |-> c.result]))

\* poll_write with a WriteAllState made anew in every poll: a nonce write that
\* a Pending interrupted starts again at the first nonce byte
poll_write_restarting_nonce(this, w, buf) ==
  NonceCiphertextWriter_ciphertext(
    this,
    IF this.nonce # None /\ this.write_all_nonce.buf_pos < Len(this.nonce)
    THEN WriteAllState_poll(WriteAllState_new, w, this.nonce)
    ELSE [self |-> this.write_all_nonce, w |-> w, result |-> Ok(<<>>)],
    buf)

\* NonceCiphertextWriter::poll_write
NonceCiphertextWriter_poll_write(this, w, buf) ==
  NonceCiphertextWriter_ciphertext(
    this,
    IF this.nonce # None
    THEN WriteAllState_poll(this.write_all_nonce, w, this.nonce)
    ELSE [self |-> this.write_all_nonce, w |-> w, result |-> Ok(<<>>)],
    buf)

\* NonceCiphertextWriter::poll_shutdown: it forwards to the transport, which
\* shuts down unless it answers Pending
NonceCiphertextWriter_poll_shutdown(this, w) ==
  IF w.budget = 0
  THEN [self |-> this, w |-> w, shutdown |-> FALSE, result |-> Pending]
  ELSE [self |-> this, w |-> w, shutdown |-> TRUE, result |-> Ok(<<>>)]

(***************************************************************************)
(* stream/read.rs                                                          *)
(***************************************************************************)
\* ReadBuf: the bytes of the filled region and the capacity
ReadBuf_new(cap) == [filled |-> <<>>, cap |-> cap]

\* ReadBuf::remaining
remaining(buf) == buf.cap - Len(buf.filled)

\* ReadExactState::new
ReadExactState_new == [buf_pos |-> 0]

RECURSIVE ReadExactState_loop_silent_eof(_, _, _)
\* a faulty loop that takes a fill of no byte for the end of its work and
\* answers Ok
ReadExactState_loop_silent_eof(self, r, buf) ==
  LET rem == remaining(buf)
  IN  IF rem # 0
      THEN LET a == R_poll_read(r, rem)
               buf1 == [buf EXCEPT !.filled = @ \o a.data]
               self1 == [self EXCEPT !.buf_pos = Len(buf1.filled)]
           IN  IF a.result[1] # "Ok"
               THEN [self |-> self, r |-> a.r, buf |-> buf, result |-> a.result]
               ELSE IF remaining(buf1) = rem
               THEN [self |-> self1, r |-> a.r, buf |-> buf1,
                     result |-> Ok(buf.cap)]
               ELSE ReadExactState_loop_silent_eof(self1, a.r, buf1)
      ELSE [self |-> self, r |-> r, buf |-> buf, result |-> Ok(buf.cap)]

RECURSIVE ReadExactState_loop_poll_first(_, _, _)
\* a faulty loop that polls the transport before it looks at what remains
ReadExactState_loop_poll_first(self, r, buf) ==
  LET rem == remaining(buf)
      a == R_poll_read(r, rem)
      buf1 == [buf EXCEPT !.filled = @ \o a.data]
      self1 == [self EXCEPT !.buf_pos = Len(buf1.filled)]
  IN  IF a.result[1] # "Ok"
      THEN [self |-> self, r |-> a.r, buf |-> buf, result |-> a.result]
      ELSE IF rem = 0
      THEN [self |-> self, r |-> a.r, buf |-> buf, result |-> Ok(buf.cap)]
      ELSE IF remaining(buf1) = rem
      THEN [self |-> self1, r |-> a.r, buf |-> buf1,
            result |-> Err("UnexpectedEof")]
      ELSE ReadExactState_loop_poll_first(self1, a.r, buf1)

RECURSIVE ReadExactState_loop(_, _, _)
\* the loop of ReadExactState::poll on the ReadBuf `buf` over the caller's
\* array
ReadExactState_loop(self, r, buf) ==
  LET rem == remaining(buf)
  IN  IF rem # 0
      THEN LET a == R_poll_read(r, rem)
               buf1 == [buf EXCEPT !.filled = @ \o a.data]
               self1 == [self EXCEPT !.buf_pos = Len(buf1.filled)]
           IN  IF a.result[1] # "Ok"
               THEN [self |-> self, r |-> a.r, buf |-> buf, result |-> a.result]
               ELSE IF remaining(buf1) = rem
               THEN [self |-> self1, r |-> a.r, buf |-> buf1,
                     result |-> Err("UnexpectedEof")]
               ELSE ReadExactState_loop(self1, a.r, buf1)
      ELSE [self |-> self, r |-> r, buf |-> buf, result |-> Ok(buf.cap)]

\* ReadExactState::poll without buf.advance(self.buf_pos): every poll fills
\* the array from its first byte
ReadExactState_poll_without_advance(self, r, bytes) ==
  LET buf == [filled |-> <<>>, cap |-> Len(bytes)]
      a == ReadExactState_loop(self, r, buf)
  IN  [self |-> a.self, r |-> a.r, result |-> a.result,
       bytes |-> a.buf.filled \o SliceFrom(bytes, Len(a.buf.filled))]

\* ReadExactState::poll on the array `bytes`: ReadBuf::new(buf) and
\* buf.advance(self.buf_pos), the loop, and the array afterwards
ReadExactState_poll(self, r, bytes) ==
  LET buf == [filled |-> SliceTo(bytes, self.buf_pos), cap |-> Len(bytes)]
      a == ReadExactState_loop(self, r, buf)
  IN  [self |-> a.self, r |-> a.r, result |-> a.result,
       bytes |-> a.buf.filled \o SliceFrom(bytes, Len(a.buf.filled))]

\* ChaCha20ReadState::new
ChaCha20ReadState_new(key, nonce, hash) ==
  With(Cipher_of(key, nonce), LAMBDA cipher :
    [cipher |-> cipher,
     hasher |-> IF hash THEN Poly1305Hasher_new(otk(cipher)) ELSE None])

\* a faulty poll that hashes and decrypts buf.filled() before it looks at the
\* answer of the transport
ChaCha20ReadState_poll_eager(self, r, buf) ==
  LET a == R_poll_read(r, remaining(buf))
      filled == buf.filled \o a.data
      e == encrypt(self.cipher, filled)
  IN  [self |-> [cipher |-> e.self,
                 hasher |-> IF self.hasher # None
                            THEN Poly1305Hasher_update(self.hasher, filled)
                            ELSE None],
       r |-> a.r,
       buf |-> [buf EXCEPT !.filled = e.buf],
       result |-> a.result]

\* ChaCha20ReadState::poll: a is the answer of the transport's poll_read,
\* filled is buf.filled() after it, e the cipher and the bytes after
\* `self.cipher.encrypt(buf.filled_mut())`
ChaCha20ReadState_poll(self, r, buf) ==
  With(R_poll_read(r, remaining(buf)), LAMBDA a :
    IF a.result[1] # "Ok"
    THEN [self |-> self, r |-> a.r, buf |-> buf, result |-> a.result]
    ELSE With(buf.filled \o a.data, LAMBDA filled :
         With(encrypt(self.cipher, filled), LAMBDA e :
           [self |-> [cipher |-> e.self,
                      hasher |-> IF self.hasher # None
                                 THEN Poly1305Hasher_update(self.hasher, filled)
                                 ELSE None],
            r |-> a.r,
            buf |-> [buf EXCEPT !.filled = e.buf],
            result |-> Ok(<<>>)])))

\* NonceCiphertextReader::new, with a nonce buffer of nonce_bytes zero bytes
NonceCiphertextReader_new(hash, key, nonce_bytes) ==
  [nonce_buf |-> Vec([i \in 1..nonce_bytes |-> 0]),
   read_exact_nonce |-> ReadExactState_new,
   key |-> key,
   chacha20 |-> None,
   hasher |-> hash]

\* NonceCiphertextReader::poll_read: a is the answer of
\* `this.read_exact_nonce.poll(..)`, c that of `chacha20.poll(..)`
NonceCiphertextReader_poll_read(this, r, buf) ==
  With(ReadExactState_poll(this.read_exact_nonce, r, this.nonce_buf), LAMBDA a :
  With([this EXCEPT !.read_exact_nonce = a.self, !.nonce_buf = a.bytes],
       LAMBDA this1 :
    IF a.result[1] # "Ok"
    THEN [self |-> this1, r |-> a.r, buf |-> buf, result |-> a.result]
    ELSE With(ChaCha20ReadState_poll(
                IF this1.chacha20 # None THEN this1.chacha20
                ELSE ChaCha20ReadState_new(this1.key, this1.nonce_buf,
                                           this1.hasher),
                a.r, buf),
              LAMBDA c : [self |-> [this1 EXCEPT !.chacha20 = c.self],
                          r |-> c.r, buf |-> c.buf, result |-> c.result])))

(***************************************************************************)
(* cursor/: NonceCursor, NonceReadCursor, NonceWriteCursor, UserDataCursor *)
(***************************************************************************)
\* a faulty cursor that starts at the end of its bytes
NonceCursor_new_at_end(bytes) == [buf |-> bytes, pos |-> Len(bytes)]

\* NonceCursor: an io::Cursor over the 12 or 24 bytes of a nonce
NonceCursor_new(bytes) == [buf |-> bytes, pos |-> 0]

\* NonceCursor::consume
NonceCursor_consume(self, amt) == [self EXCEPT !.pos = @ + amt]

\* a faulty test that takes a cursor one byte before its end for complete
NonceCursor_complete_early(self) == self.pos + 1 >= Len(self.buf)

\* NonceCursor::complete
NonceCursor_complete(self) == self.pos = Len(self.buf)

\* NonceCursor::chacha20_nonce
NonceCursor_chacha20_nonce(self) ==
  IF Len(self.buf) = NONCE_BYTES THEN self.buf
  ELSE chacha20_nonce_from_xnonce(self.buf)

\* NonceCursor::remaining
NonceCursor_remaining(self) == SliceFrom(self.buf, self.pos)

\* UserDataCursor::new, as a state of a ReadCursorState or WriteCursorState
UserDataCursor_new(cipher) == [tag |-> "UserData", cipher |-> cipher]

\* UserDataCursor::cipher, the accessor encrypt.rs and decrypt.rs call: the
\* cursor's StreamCipher
UserDataCursor_cipher(self) == self.cipher

\* UserDataCursor::xor: the cursor and the buffer afterwards
UserDataCursor_xor(self, buf) ==
  With(encrypt(self.cipher, buf),
       LAMBDA e : [self |-> [self EXCEPT !.cipher = e.self], buf |-> e.buf])

\* NonceReadCursor::new and new_x; `nonce` is the value of rand::random()
NonceReadCursor_new(key, nonce) ==
  [tag |-> "Nonce", key |-> key, nonce |-> NonceCursor_new(nonce)]

\* NonceReadCursor::remaining_nonce
remaining_nonce(self) == NonceCursor_remaining(self.nonce)

\* NonceReadCursor::consume_nonce: the ReadCursorState afterwards
consume_nonce(self, amt) ==
  LET self1 == [self EXCEPT !.nonce = NonceCursor_consume(@, amt)]
  IN  IF ~NonceCursor_complete(self1.nonce) THEN self1
      ELSE UserDataCursor_new(Cipher_of(self1.key, self1.nonce.buf))

\* NonceWriteCursor::new and new_x
NonceWriteCursor_new(key, nonce_bytes) ==
  [tag |-> "Nonce", key |-> key,
   nonce |-> NonceCursor_new(Vec([i \in 1..nonce_bytes |-> 0]))]

\* NonceWriteCursor::remaining_nonce_size
remaining_nonce_size(self) == Len(NonceCursor_remaining(self.nonce))

\* NonceWriteCursor::collect_nonce_from on the io::Cursor `r` over `bytes`:
\* the WriteCursorState and r.position() afterwards
collect_nonce_from(self, bytes) ==
  LET n == Min(Len(bytes), Len(NonceCursor_remaining(self.nonce)))
      filled == [self.nonce EXCEPT
                   !.buf = SliceTo(@, self.nonce.pos) \o SliceTo(bytes, n)
                             \o SliceFrom(@, self.nonce.pos + n)]
      self1 == [self EXCEPT !.nonce = NonceCursor_consume(filled, n)]
  IN  [state |-> IF ~NonceCursor_complete(self1.nonce) THEN self1
                 ELSE UserDataCursor_new(Cipher_of(self1.key, self1.nonce.buf)),
       position |-> n]

(***************************************************************************)
(* cursor/encrypt.rs and cursor/decrypt.rs                                 *)
(***************************************************************************)
\* EncryptCursor::new and new_x
EncryptCursor_new(key, nonce) == [state |-> NonceReadCursor_new(key, nonce)]

\* a faulty user-data part that copies all of `from`, whatever room `to` has
EncryptCursor_user_data_whole_from(state, head, from, to_rest) ==
  LET x == UserDataCursor_xor(state, from)
  IN  [self |-> [state |-> x.self],
       to |-> head \o x.buf,
       read |-> Len(from),
       written |-> Len(head) + Len(from)]

\* EncryptCursor::encrypt from `let to = &mut to[to_pos..]` on: state is the
\* UserData cursor, head the to[..to_pos] of the nonce part, to_rest the bytes
\* of `to` left
EncryptCursor_user_data(state, head, from, to_rest) ==
  With(Min(Len(from), to_rest), LAMBDA copy_n :
  With(UserDataCursor_xor(state, SliceTo(from, copy_n)), LAMBDA x :
    [self |-> [state |-> x.self],
     to |-> head \o x.buf,
     read |-> copy_n,
     written |-> Len(head) + copy_n]))

\* encrypt that leaves to_pos out of `written`: the nonce bytes copied in the
\* same call are not counted
encrypt_written_without_nonce(self, from, to_len) ==
  LET copy_n == Min(Len(remaining_nonce(self.state)), to_len)
      r == IF self.state.tag # "Nonce"
           THEN EncryptCursor_user_data(self.state, <<>>, from, to_len)
           ELSE IF copy_n = to_len
           THEN [self |-> [state |-> consume_nonce(self.state, copy_n)],
                 to |-> SliceTo(remaining_nonce(self.state), copy_n),
                 read |-> 0, written |-> copy_n]
           ELSE EncryptCursor_user_data(
                  consume_nonce(self.state, copy_n),
                  SliceTo(remaining_nonce(self.state), copy_n),
                  from, to_len - copy_n)
  IN  IF self.state.tag = "Nonce" /\ copy_n = to_len THEN r
      ELSE [r EXCEPT !.to = SliceTo(r.to, r.read), !.written = r.read]

\* a faulty encrypt that marks one nonce byte emitted when `to` is empty
encrypt_marking_nonce(self, from, to_len) ==
  LET copy_n == Min(Len(remaining_nonce(self.state)), to_len)
  IN  IF self.state.tag # "Nonce"
      THEN EncryptCursor_user_data(self.state, <<>>, from, to_len)
      ELSE IF to_len = 0
      THEN [self |-> [state |-> consume_nonce(self.state, 1)],
            to |-> <<>>, read |-> 0, written |-> 0]
      ELSE IF copy_n = to_len
      THEN [self |-> [state |-> consume_nonce(self.state, copy_n)],
            to |-> SliceTo(remaining_nonce(self.state), copy_n),
            read |-> 0, written |-> copy_n]
      ELSE EncryptCursor_user_data(
             consume_nonce(self.state, copy_n),
             SliceTo(remaining_nonce(self.state), copy_n),
             from, to_len - copy_n)

\* EncryptCursor::encrypt(from, to) with a `to` of to_len bytes: the cursor,
\* to[..written], read and written afterwards
EncryptCursor_encrypt(self, from, to_len) ==
  IF self.state.tag # "Nonce"
  THEN EncryptCursor_user_data(self.state, <<>>, from, to_len)
  ELSE With(Min(Len(remaining_nonce(self.state)), to_len), LAMBDA copy_n :
         IF copy_n = to_len
         THEN [self |-> [state |-> consume_nonce(self.state, copy_n)],
               to |-> SliceTo(remaining_nonce(self.state), copy_n),
               read |-> 0, written |-> copy_n]
         ELSE EncryptCursor_user_data(
                consume_nonce(self.state, copy_n),
                SliceTo(remaining_nonce(self.state), copy_n),
                from, to_len - copy_n))

\* EncryptCursor::poly1305_key, that is poly1305_key_map_nonce(|x| x)
EncryptCursor_poly1305_key(self) ==
  poly1305_key_gen(
    IF self.state.tag = "Nonce" THEN self.state.key
    ELSE Block_key(UserDataCursor_cipher(self.state).block),
    IF self.state.tag = "Nonce" THEN NonceCursor_chacha20_nonce(self.state.nonce)
    ELSE Block_nonce(UserDataCursor_cipher(self.state).block))

\* DecryptResult
StillAtNonce == <<"StillAtNonce">>
WithUserData(user_data_start) == <<"WithUserData", user_data_start>>

\* DecryptCursor::new and new_x
DecryptCursor_new(key, nonce_bytes) ==
  [state |-> NonceWriteCursor_new(key, nonce_bytes)]

RECURSIVE DecryptCursor_loop(_, _, _)
\* the loop of DecryptCursor::decrypt, entered with `pos`
DecryptCursor_loop(self, buf, pos) ==
  IF self.state.tag = "Nonce"
  THEN With(collect_nonce_from(self.state, buf), LAMBDA c :
         IF c.position = Len(buf)
         THEN [self |-> [state |-> c.state], buf |-> buf,
               result |-> StillAtNonce]
         ELSE DecryptCursor_loop([state |-> c.state], buf, c.position))
  ELSE With(UserDataCursor_xor(self.state, SliceFrom(buf, pos)), LAMBDA x :
         [self |-> [state |-> x.self],
          buf |-> SliceTo(buf, pos) \o x.buf,
          result |-> WithUserData(pos)])

\* DecryptCursor::decrypt(buf): the cursor, buf and the result afterwards
DecryptCursor_decrypt(self, buf) == DecryptCursor_loop(self, buf, 0)

\* DecryptCursor::poly1305_key, that is poly1305_key_map_nonce(|x| x): None,
\* or <<k>> for Some(k)
DecryptCursor_poly1305_key(self) ==
  IF self.state.tag # "UserData" THEN None
  ELSE <<poly1305_key_gen(
           Block_key(UserDataCursor_cipher(self.state).block),
           Block_nonce(UserDataCursor_cipher(self.state).block))>>

\* DecryptCursor::remaining_nonce_size
DecryptCursor_remaining_nonce_size(self) ==
  IF self.state.tag = "Nonce" THEN remaining_nonce_size(self.state) ELSE 0

(***************************************************************************)
(* Inputs of the model                                                     *)
(***************************************************************************)
\* the keys of the hasher runs
Keys == {KeyNonces[1].key, KeyNonces[2].key}

\* byte number p (from 1) of the plaintext stream chosen by seed
PlainByte(seed, p) == (seed + 29 * p + (p \div 7)) % 256

\* the bytes from + 1 .. from + n of the plaintext stream of seed
PlainSlice(seed, from, n) == Vec([i \in 1..n |-> PlainByte(seed, from + i)])

Seeds == {0, 138}

\* the runs of the cipher: a key with the 12-byte nonce and the plaintext
\* stream 0, another key with the 24-byte nonce and the plaintext stream 138
Configs ==
  {[key |-> KeyNonces[1].key, nonce |-> KeyNonces[1].nonce, seed |-> 0],
   [key |-> KeyNonces[2].key, nonce |-> KeyNonces[2].nonce, seed |-> 138]}


\* the runs of the streams: the writer's configuration (key, nonce, write_nonce,
\* hash), the plaintext stream, and whether a NonceCiphertextReader of the
\* same key and hash setting reads the transport
StreamConfigs ==
  << [key |-> KeyNonces[1].key, nonce |-> KeyNonces[1].nonce,
      seed |-> 0, write_nonce |-> TRUE, hash |-> TRUE, reader |-> TRUE],
     [key |-> KeyNonces[2].key, nonce |-> KeyNonces[2].nonce,
      seed |-> 138, write_nonce |-> TRUE, hash |-> TRUE, reader |-> TRUE],
     [key |-> KeyNonces[1].key, nonce |-> KeyNonces[1].nonce,
      seed |-> 0, write_nonce |-> FALSE, hash |-> FALSE, reader |-> FALSE] >>

\* the most plaintext bytes a stream run writes
MaxPlain == 4

\* the most plaintext bytes a cursor run consumes
MaxCursorPlain == 4

\* the cursor runs: the key, the nonce rand::random() gave the EncryptCursor
\* and the plaintext stream
CursorConfigs ==
  <<[key |-> KeyNonces[1].key, nonce |-> KeyNonces[1].nonce, seed |-> 0],
    [key |-> KeyNonces[2].key, nonce |-> KeyNonces[2].nonce, seed |-> 138]>>

\* the first bytes of the keystream of every run, as many as a stream run or a
\* cursor run uses: zero bytes encrypted in one call by a fresh cipher of the
\* run's key and nonce
KeyStreams ==
  Vec([i \in 1..Len(StreamConfigs) |->
         encrypt(Cipher_of(StreamConfigs[i].key, StreamConfigs[i].nonce),
                 Vec([j \in 1..(MaxPlain + MaxCursorPlain) |-> 0])).buf])

\* the Poly1305 one-time key of every run
OneTimeKeys ==
  Vec([i \in 1..Len(StreamConfigs) |->
         otk(Cipher_of(StreamConfigs[i].key, StreamConfigs[i].nonce))])

(***************************************************************************)
(* State                                                                   *)
(***************************************************************************)
VARIABLES
  c_key,      \* cipher runs: the key
  c_nonce,    \* cipher runs: the nonce (12 or 24 bytes)
  c_seed,     \* cipher runs: the plaintext stream
  c_cipher,   \* the StreamCipher that encrypts slice after slice
  c_plain,    \* the slices given to encrypt so far, concatenated
  c_out,      \* the slices after their encrypt calls, concatenated
  c_rt,       \* None, or <<m, e, back>> of one round trip
  m_key,      \* hasher runs: the one-time key
  m_seed,     \* hasher runs: the message stream
  m_hasher,   \* the Poly1305Hasher
  m_msg,      \* the pieces given to update so far, concatenated
  m_tag,      \* None, or the tag finalize gave after the last update
  s_cfg,      \* stream runs: the index of the run in StreamConfigs, or 0
  wire,       \* the bytes the transport has accepted from the writer
  w_shutdown, \* the transport's write half has shut down
  writer,     \* the NonceCiphertextWriter
  w_offered,  \* the buffers given to poll_write so far, concatenated
  w_inflight, \* <<buf>> while poll_write(buf) has not answered Ok, else <<>>
  w_result,   \* the result of the writer's last poll
  reader,     \* the NonceCiphertextReader, or None
  r_pos,      \* the number of bytes of wire the transport has handed out
  rb,         \* the caller's ReadBuf
  r_delivered,\* the filled bytes the caller has taken out of its ReadBufs
  r_result,   \* the result of the reader's last poll
  k_cfg,      \* cursor runs: the index of the run in CursorConfigs, or 0
  en,         \* the EncryptCursor
  de,         \* the DecryptCursor
  k_consumed, \* the from[..read] of the encrypt calls so far, concatenated
  k_wire,     \* the to[..written] of the encrypt calls so far, concatenated
  k_fed,      \* the number of bytes of k_wire given to decrypt so far
  k_plain,    \* the user data of the decrypt calls so far, concatenated
  k_result,   \* the result of the last decrypt call
  k_en,       \* <<read, written>> of the last encrypt call if its `to` was
              \* empty, or None
  b_block,    \* block runs: the Block
  b_state,    \* block runs: the State
  b_call,     \* block runs: the last call and its arguments, or None
  b_depth,    \* the number of quarter_round calls on b_state
  b_key,      \* the 32 bytes the last hchacha20 call returned
  p_cipher,   \* path runs: the StreamCipher
  p_in,       \* path runs: the buffer given to the call
  p_out,      \* path runs: the buffer after the call
  p_call,     \* path runs: None, or <<name, par>> of the call
  t_pc,       \* worker runs: where encrypt_ is: "idle", "workers" or "done"
  t_prior,    \* worker runs: the cipher as the call found it
  t_pos,      \* worker runs: `pos`, the bytes the leftover has taken
  t_next,     \* for every outer chunk, the number of its chunks XORed so far
  t_xors      \* for every full chunk, the <<outer chunk, i>> of its XORs

cipher_vars == <<c_key, c_nonce, c_seed, c_cipher, c_plain, c_out, c_rt>>
mac_vars == <<m_key, m_seed, m_hasher, m_msg, m_tag>>
writer_vars == <<wire, w_shutdown, writer, w_offered, w_inflight, w_result>>
reader_vars == <<reader, r_pos, rb, r_delivered, r_result>>
stream_vars == <<s_cfg, writer_vars, reader_vars>>
cursor_vars ==
  <<k_cfg, en, de, k_consumed, k_wire, k_fed, k_plain, k_result, k_en>>
block_vars == <<b_block, b_state, b_call, b_depth, b_key>>
par_vars == <<p_cipher, p_in, p_out, p_call>>
pool_vars == <<t_pc, t_prior, t_pos, t_next, t_xors>>
vars ==
  <<cipher_vars, mac_vars, stream_vars, cursor_vars, block_vars, par_vars,
    pool_vars>>

\* bounds of the runs
MaxBytes == 130
MaxMacBytes == 40
MaxKeystream == 5

\* the slice lengths of the encrypt calls
SliceLens == {0, 1, 63, 64, 65, 128}

\* the piece lengths of the update calls
PieceLens == {0, 1, 5, 15, 16, 17, 33}

\* the lengths of the buffers given to poll_write
WriteLens == {0, 2}

\* the most bytes the transport accepts in one call, and in one poll of the
\* writer before it answers Pending
WChunks == {0, 2, 40}
WBudgets == {0, 1, 5, 40}

\* the most bytes the transport hands out in one call
RChunks == {1, 40}

\* the trouble of the transport at a poll_read: None, or <<kind>> of an
\* io::ErrorKind
RFails == {None, <<"ConnectionReset">>}

\* the capacities of the caller's ReadBufs
RCaps == {3}

\* the lengths of `from` and of `to` in the encrypt calls, and of the buffers
\* given to decrypt
FromLens == {0, 1, 3}
ToLens == {0, 1, 7, 13, 30}
ChunkLens == {0, 1, 7, 13, 30}

(***************************************************************************)
(* StreamCipher runs                                                       *)
(***************************************************************************)
CipherIdle ==
  /\ c_key = <<>> /\ c_nonce = <<>> /\ c_seed = 0 /\ c_cipher = None
  /\ c_plain = <<>> /\ c_out = <<>> /\ c_rt = None

CipherInit ==
  /\ \E cfg \in Configs :
       c_key = cfg.key /\ c_nonce = cfg.nonce /\ c_seed = cfg.seed
  /\ c_cipher = Cipher_of(c_key, c_nonce)
  /\ c_plain = <<>>
  /\ c_out = <<>>
  /\ c_rt = None

\* cipher.encrypt(slice) on the next n bytes of the plaintext stream
Encrypt(n) ==
  /\ c_rt = None
  /\ Len(c_plain) + n <= MaxBytes
  /\ With(PlainSlice(c_seed, Len(c_plain), n), LAMBDA slice :
     With(encrypt(c_cipher, slice), LAMBDA r :
       /\ c_cipher' = r.self
       /\ c_plain' = c_plain \o slice
       /\ c_out' = c_out \o r.buf))
  /\ UNCHANGED <<c_key, c_nonce, c_seed, c_rt, mac_vars, stream_vars,
                 cursor_vars, block_vars, par_vars, pool_vars>>

\* a fresh cipher encrypts the message m, another fresh cipher of the same key
\* and nonce encrypts the result
RoundTrip ==
  /\ c_rt = None
  /\ With(encrypt(Cipher_of(c_key, c_nonce), c_plain).buf, LAMBDA e :
       c_rt' = <<c_plain, e, encrypt(Cipher_of(c_key, c_nonce), e).buf>>)
  /\ UNCHANGED <<c_key, c_nonce, c_seed, c_cipher, c_plain, c_out, mac_vars,
                 stream_vars, cursor_vars, block_vars, par_vars, pool_vars>>

\* a cipher of the first key and nonce that has run up to one of its last two
\* counters and stopped at the end of a block; c_plain and c_out are the
\* bytes from there on
WrapInit ==
  /\ c_key = KeyNonces[1].key /\ c_nonce = KeyNonces[1].nonce
  /\ c_seed \in Seeds
  /\ \E c \in 1..Len(LAST_COUNTERS) :
       c_cipher = [block |-> Block_new(c_key, c_nonce, LAST_COUNTERS[c]),
                   leftover |-> None]
  /\ c_plain = <<>>
  /\ c_out = <<>>
  /\ c_rt = None

(***************************************************************************)
(* Poly1305Hasher runs                                                     *)
(***************************************************************************)
\* the key of test_mac (RFC 8439 section 2.5.2)
TEST_MAC_KEY ==
  <<133, 214, 190, 120, 87, 85, 109, 51, 127, 68, 82, 254,
    66, 213, 6, 168, 1, 3, 128, 138, 251, 13, 178, 253,
    74, 191, 246, 175, 65, 73, 245, 27>>

\* the message of test_mac, "Cryptographic Forum Research Group"
TEST_MAC_MSG ==
  <<67, 114, 121, 112, 116, 111, 103, 114, 97, 112, 104, 105,
    99, 32, 70, 111, 114, 117, 109, 32, 82, 101, 115, 101,
    97, 114, 99, 104, 32, 71, 114, 111, 117, 112>>

\* a one-time key whose r is 1 and whose s is 0xfffe
SMALL_MAC_KEY ==
  <<1>> \o Vec([i \in 1..15 |-> 0]) \o <<254, 255>> \o Vec([i \in 1..14 |-> 0])

\* the one-time keys of the hasher runs
MacKeys == Keys \cup {SMALL_MAC_KEY}

MacIdle ==
  m_key = <<>> /\ m_seed = 0 /\ m_hasher = None /\ m_msg = <<>>
    /\ m_tag = None

MacInit ==
  /\ m_key \in MacKeys
  /\ m_seed \in Seeds
  /\ m_hasher = Poly1305Hasher_new(m_key)
  /\ m_msg = <<>>
  /\ m_tag = None

\* hasher.update(piece) on the next n bytes of the message stream
Update(n) ==
  /\ Len(m_msg) + n <= MaxMacBytes
  /\ LET piece == PlainSlice(m_seed, Len(m_msg), n)
     IN  /\ m_hasher' = Poly1305Hasher_update(m_hasher, piece)
         /\ m_msg' = m_msg \o piece
  /\ m_tag' = None
  /\ UNCHANGED <<m_key, m_seed, cipher_vars, stream_vars, cursor_vars,
                 block_vars, par_vars, pool_vars>>

\* tag = hasher.finalize(); finalize takes &self and leaves the hasher
Finalize ==
  /\ m_hasher # None
  /\ m_tag' = Poly1305Hasher_finalize(m_hasher)
  /\ UNCHANGED <<m_key, m_seed, m_hasher, m_msg, cipher_vars, stream_vars,
                 cursor_vars, block_vars, par_vars, pool_vars>>

(***************************************************************************)
(* Stream runs: a caller writes through a NonceCiphertextWriter into the   *)
(* transport, another polls a NonceCiphertextReader that reads from it     *)
(***************************************************************************)
StreamIdle ==
  /\ s_cfg = 0 /\ wire = <<>> /\ w_shutdown = FALSE /\ writer = None
  /\ w_offered = <<>> /\ w_inflight = <<>> /\ w_result = None
  /\ reader = None /\ r_pos = 0 /\ rb = None /\ r_delivered = <<>>
  /\ r_result = None

Cfg == StreamConfigs[s_cfg]

StreamInit ==
  /\ s_cfg \in 1..Len(StreamConfigs)
  /\ wire = <<>>
  /\ w_shutdown = FALSE
  /\ writer = NonceCiphertextWriter_new(Cfg.key, Cfg.write_nonce, Cfg.hash,
                                        Cfg.nonce)
  /\ w_offered = <<>>
  /\ w_inflight = <<>>
  /\ w_result = None
  /\ reader = IF Cfg.reader
              THEN NonceCiphertextReader_new(Cfg.hash, Cfg.key, Len(Cfg.nonce))
              ELSE None
  /\ r_pos = 0
  /\ rb \in {ReadBuf_new(cap) : cap \in RCaps}
  /\ r_delivered = <<>>
  /\ r_result = None

\* the keystream bytes a cipher has produced and used up
KeystreamUsed(cipher) ==
  LET blocks == cipher.block.counter[2] - 1
  IN  IF cipher.leftover = None THEN blocks * BLOCK_SIZE
      ELSE (blocks - 1) * BLOCK_SIZE + cipher.leftover[2]

\* the caller polls writer.poll_write(buf): with the buffer of the poll that
\* answered Pending or an error, or else with the next n bytes of the
\* plaintext stream; a poll that diverges is the writer's last
WriterPoll(n, chunk, budget) ==
  /\ writer # None
  /\ ~w_shutdown
  /\ w_result # Diverges
  /\ w_inflight = <<>> => Len(w_offered) + n <= MaxPlain
  /\ w_inflight # <<>> => n = Len(w_inflight[1])
  /\ With(IF w_inflight # <<>> THEN w_inflight[1]
          ELSE PlainSlice(Cfg.seed, Len(w_offered), n), LAMBDA buf :
     With(NonceCiphertextWriter_poll_write(
            writer, [wire |-> wire, chunk |-> chunk, budget |-> budget], buf),
          LAMBDA a :
       /\ writer' = a.self
       /\ wire' = a.w.wire
       /\ w_result' = a.result
       /\ w_offered' = IF w_inflight # <<>> THEN w_offered
                       ELSE w_offered \o buf
       /\ w_inflight' = IF a.result[1] = "Ok" THEN <<>> ELSE <<buf>>))
  /\ UNCHANGED <<s_cfg, w_shutdown, reader_vars, cipher_vars, mac_vars,
                 cursor_vars, block_vars, par_vars, pool_vars>>

\* the caller polls writer.poll_shutdown(), at any time between its polls
WriterShutdown(budget) ==
  /\ writer # None
  /\ ~w_shutdown
  /\ w_result # Diverges
  /\ LET w == [wire |-> wire, chunk |-> 0, budget |-> budget]
         a == NonceCiphertextWriter_poll_shutdown(writer, w)
     IN  /\ writer' = a.self
         /\ wire' = a.w.wire
         /\ w_shutdown' = a.shutdown
         /\ w_result' = a.result
  /\ UNCHANGED <<s_cfg, w_offered, w_inflight, reader_vars, cipher_vars,
                 mac_vars, cursor_vars, block_vars, par_vars, pool_vars>>

\* the caller polls reader.poll_read(buf) with its ReadBuf as it is; the
\* transport hands out at most chunk bytes, or fails with `fail`
ReaderPoll(chunk, fail) ==
  /\ reader # None
  /\ reader.chacha20 # None =>
       KeystreamUsed(reader.chacha20.cipher) <= MaxKeystream
  /\ With(NonceCiphertextReader_poll_read(
            reader,
            [wire |-> wire, eof |-> w_shutdown, pos |-> r_pos, chunk |-> chunk,
             fail |-> fail],
            rb),
          LAMBDA a :
            /\ reader' = a.self
            /\ r_pos' = a.r.pos
            /\ rb' = a.buf
            /\ r_result' = a.result)
  /\ UNCHANGED <<s_cfg, writer_vars, r_delivered, cipher_vars, mac_vars,
                 cursor_vars, block_vars, par_vars, pool_vars>>

\* the caller takes the filled bytes and goes on with an empty ReadBuf of
\* capacity cap
ReaderTake(cap) ==
  /\ reader # None
  /\ rb.filled # <<>>
  /\ r_delivered' = r_delivered \o rb.filled
  /\ rb' = ReadBuf_new(cap)
  /\ UNCHANGED <<s_cfg, writer_vars, reader, r_pos, r_result, cipher_vars,
                 mac_vars, cursor_vars, block_vars, par_vars, pool_vars>>

(***************************************************************************)
(* Cursor runs: a caller encrypts its plaintext stream through an          *)
(* EncryptCursor, another gives the output to a DecryptCursor              *)
(***************************************************************************)
CursorIdle ==
  /\ k_cfg = 0 /\ en = None /\ de = None /\ k_consumed = <<>>
  /\ k_wire = <<>> /\ k_fed = 0 /\ k_plain = <<>> /\ k_result = None
  /\ k_en = None

KCfg == CursorConfigs[k_cfg]

CursorInit ==
  /\ k_cfg \in 1..Len(CursorConfigs)
  /\ en = EncryptCursor_new(KCfg.key, KCfg.nonce)
  /\ de = DecryptCursor_new(KCfg.key, Len(KCfg.nonce))
  /\ k_consumed = <<>>
  /\ k_wire = <<>>
  /\ k_fed = 0
  /\ k_plain = <<>>
  /\ k_result = None
  /\ k_en = None

\* en.encrypt(from, to): `from` the next n unconsumed bytes of the plaintext
\* stream, `to` of to_len bytes
CursorEncrypt(n, to_len) ==
  /\ en # None
  /\ Len(k_consumed) + n <= MaxCursorPlain
  /\ With(PlainSlice(KCfg.seed, Len(k_consumed), n), LAMBDA from :
     With(EncryptCursor_encrypt(en, from, to_len), LAMBDA a :
       /\ en' = a.self
       /\ k_consumed' = k_consumed \o SliceTo(from, a.read)
       /\ k_wire' = k_wire \o SliceTo(a.to, a.written)
       /\ k_en' = IF to_len = 0 THEN <<a.read, a.written>> ELSE None))
  /\ UNCHANGED <<k_cfg, de, k_fed, k_plain, k_result, cipher_vars, mac_vars,
                 stream_vars, block_vars, par_vars, pool_vars>>

\* de.decrypt(buf) on the next n bytes of the encrypt output
CursorDecrypt(n) ==
  /\ de # None
  /\ k_fed + n <= Len(k_wire)
  /\ With(DecryptCursor_decrypt(de, SubSeq(k_wire, k_fed + 1, k_fed + n)),
          LAMBDA a :
            /\ de' = a.self
            /\ k_fed' = k_fed + n
            /\ k_result' = a.result
            /\ k_plain' = IF a.result = StillAtNonce THEN k_plain
                          ELSE k_plain \o SliceFrom(a.buf, a.result[2]))
  /\ UNCHANGED <<k_cfg, en, k_consumed, k_wire, k_en, cipher_vars, mac_vars,
                 stream_vars, block_vars, par_vars, pool_vars>>

(***************************************************************************)
(* Serial and parallel path runs                                           *)
(***************************************************************************)
\* the bytes the cipher has encrypted before the call of the run
PriorLens == {0, 1, 64, 127}

\* the lengths of the buffers: up to two blocks and a little, and buffers
\* for encrypt_ and for encrypt that no run goes on from
ParLens == {0, 1, 2, 63, 64, 65, 66, 127, 128, 129, 130}
ParBigLens == {BLOCK_SIZE * PAR_OUTER_CHUNK_SIZE + BLOCK_SIZE + 5}
AutoBigLens == {BLOCK_SIZE * PAR_BLOCKS_THRESHOLD + 1}

ParIdle == p_cipher = None /\ p_in = <<>> /\ p_out = <<>> /\ p_call = None

\* the cipher of the tests (stream_cipher()) after an encrypt call of m bytes
ParInit ==
  /\ \E m \in PriorLens :
       p_cipher = encrypt(StreamCipher_new(KeyNonces[1].key,
                                           KeyNonces[1].nonce),
                          PlainSlice(0, 0, m)).self
  /\ p_in = <<>>
  /\ p_out = <<>>
  /\ p_call = None

\* cipher.encrypt_(buf, par) on a buffer of n bytes
EncryptPar(n, par) ==
  /\ p_call = None
  /\ With(PlainSlice(0, 0, n), LAMBDA buf :
     With(encrypt_(p_cipher, buf, par), LAMBDA r :
       /\ p_cipher' = r.self
       /\ p_in' = buf
       /\ p_out' = r.buf))
  /\ p_call' = <<"encrypt_", par>>
  /\ UNCHANGED <<cipher_vars, mac_vars, stream_vars, cursor_vars, block_vars,
                 pool_vars>>

\* cipher.encrypt(buf) on a buffer of n bytes
EncryptAuto(n) ==
  /\ p_call = None
  /\ With(PlainSlice(0, 0, n), LAMBDA buf :
     With(encrypt(p_cipher, buf), LAMBDA r :
       /\ p_cipher' = r.self
       /\ p_in' = buf
       /\ p_out' = r.buf
       /\ p_call' = <<"encrypt", ParOrNot(buf)>>))
  /\ UNCHANGED <<cipher_vars, mac_vars, stream_vars, cursor_vars, block_vars,
                 pool_vars>>

(***************************************************************************)
(* The workers of the parallel path                                        *)
(***************************************************************************)
\* the bytes the cipher has encrypted before the call of the run
PoolPriorLens == {0, 127}

\* the lengths of the buffers
PoolLens ==
  {0, 1, 64, 65, 130, BLOCK_SIZE * PAR_OUTER_CHUNK_SIZE + BLOCK_SIZE + 5}

\* the size of an outer chunk of par_chunks_mut
OUTER_SIZE == BLOCK_SIZE * PAR_OUTER_CHUNK_SIZE

\* the number of full chunks of the outer chunk i (1-based) of a buffer of
\* len bytes: c.chunks_exact_mut(BLOCK_SIZE) of the closure's c
inner_count(len, i) ==
  (Min(len, i * OUTER_SIZE) - (i - 1) * OUTER_SIZE) \div BLOCK_SIZE

\* a faulty join that returns when the first outer chunk is done
workers_joined_first(len, next) ==
  IF Len(next) = 0 THEN TRUE ELSE next[1] = inner_count(len, 1)

\* for_each of the parallel iterator has returned: every outer chunk is done
workers_joined(len, next) ==
  \A i \in 1..Len(next) : next[i] = inner_count(len, i)

PoolIdle ==
  /\ t_pc = "idle" /\ t_prior = None /\ t_pos = 0 /\ t_next = <<>>
  /\ t_xors = <<>>

PoolInit ==
  /\ \E m \in PoolPriorLens :
       p_cipher = encrypt(StreamCipher_new(KeyNonces[1].key,
                                           KeyNonces[1].nonce),
                          PlainSlice(0, 0, m)).self
  /\ p_in = <<>>
  /\ p_out = <<>>
  /\ p_call = None
  /\ PoolIdle

\* encrypt_(buf, ParOrNot::Parallel) up to the parallel iterator: "Consume the
\* leftover", with the early return, and buf = &mut buf[pos..]
PoolBegin(n) ==
  /\ t_pc = "idle"
  /\ p_call' = <<"encrypt_", TRUE>>
  /\ t_prior' = p_cipher
  /\ With(PlainSlice(0, 0, n), LAMBDA buf :
       /\ p_in' = buf
       /\ IF p_cipher.leftover # None
          THEN With(SliceFrom(byte_vec(p_cipher.leftover[1]),
                              p_cipher.leftover[2]),
                    LAMBDA unused :
               With(xor_size(buf, unused), LAMBDA size :
                 /\ p_out' = xor(buf, unused)
                 /\ t_pos' = size
                 /\ IF p_cipher.leftover[2] + size
                         # Len(byte_vec(p_cipher.leftover[1]))
                    THEN /\ p_cipher' = [p_cipher EXCEPT !.leftover =
                                           <<p_cipher.leftover[1],
                                             p_cipher.leftover[2] + size>>]
                         /\ t_pc' = "done"
                         /\ t_next' = <<>>
                         /\ t_xors' = <<>>
                    ELSE /\ p_cipher' = [p_cipher EXCEPT !.leftover = None]
                         /\ t_pc' = "workers"
                         /\ t_next' = Vec([i \in 1..chunks_count(
                                                      SliceFrom(buf, size),
                                                      OUTER_SIZE) |-> 0])
                         /\ t_xors' = Vec([k \in 1..((n - size)
                                                       \div BLOCK_SIZE) |->
                                             <<>>])))
          ELSE /\ p_out' = buf
               /\ t_pos' = 0
               /\ p_cipher' = p_cipher
               /\ t_pc' = "workers"
               /\ t_next' = Vec([i \in 1..chunks_count(buf, OUTER_SIZE) |-> 0])
               /\ t_xors' = Vec([k \in 1..(n \div BLOCK_SIZE) |-> <<>>]))
  /\ UNCHANGED <<cipher_vars, mac_vars, stream_vars, cursor_vars, block_vars>>

\* the worker of the outer chunk i (1-based) calls xor_full_block on its next
\* chunk: (j + i * PAR_OUTER_CHUNK_SIZE, c)
PoolWork(i) ==
  /\ t_pc = "workers"
  /\ i \in 1..Len(t_next)
  /\ t_next[i] < inner_count(Len(p_out) - t_pos, i)
  /\ With(t_next[i] + (i - 1) * PAR_OUTER_CHUNK_SIZE, LAMBDA k :
     With(t_pos + k * BLOCK_SIZE, LAMBDA from :
       /\ p_out' = SubSeq(p_out, 1, from)
                      \o xor_full_block(p_cipher.block, k,
                                        SubSeq(p_out, from + 1,
                                               from + BLOCK_SIZE))
                      \o SubSeq(p_out, from + BLOCK_SIZE + 1, Len(p_out))
       /\ t_xors' = [t_xors EXCEPT ![k + 1] = Append(@, <<i - 1, k>>)]))
  /\ t_next' = [t_next EXCEPT ![i] = @ + 1]
  /\ UNCHANGED <<p_cipher, p_in, p_call, t_pc, t_prior, t_pos, cipher_vars,
                 mac_vars, stream_vars, cursor_vars, block_vars>>

\* the rest of encrypt_ after the parallel iterator has returned: "Last `buf`
\* chuck" and increment_counter
PoolJoin ==
  /\ t_pc = "workers"
  /\ workers_joined(Len(p_out) - t_pos, t_next)
  /\ With(SliceFrom(p_out, t_pos), LAMBDA buf :
     With(into_remainder(buf, BLOCK_SIZE), LAMBDA c :
     With(next_nth_block(p_cipher.block, chunks_exact_count(buf, BLOCK_SIZE)),
          LAMBDA state :
       /\ p_out' = SubSeq(p_out, 1, Len(p_out) - Len(c))
                      \o (IF c # <<>> THEN xor(c, byte_vec(state)) ELSE <<>>)
       /\ p_cipher' =
            [block |-> increment_counter(p_cipher.block,
                                         chunks_count(buf, BLOCK_SIZE)),
             leftover |-> IF c # <<>>
                          THEN <<state, xor_size(c, byte_vec(state))>>
                          ELSE p_cipher.leftover])))
  /\ t_pc' = "done"
  /\ UNCHANGED <<p_in, p_call, t_prior, t_pos, t_next, t_xors, cipher_vars,
                 mac_vars, stream_vars, cursor_vars, block_vars>>

(***************************************************************************)
(* Block and State runs                                                    *)
(***************************************************************************)
\* the State of test_quarter_round_on_state
TEST_STATE ==
  << <<34709, 12768>>, <<50668, 62333>>, <<20836, 25009>>, <<51622, 12170>>,
     <<17602, 3827>>, <<13200, 44927>>, <<55804, 26891>>, <<10847, 29004>>,
     <<21303, 10087>>, <<45066, 22065>>, <<38732, 21530>>, <<13726, 39267>>,
     <<23703, 4193>>, <<15715, 5769>>, <<8344, 55766>>, <<37339, 54048>> >>

\* the Blocks of the runs: the Block of test_block, and the Block of a cipher
\* of the first key and nonce at its last two counters
BlockInputs ==
  {Block_new(KeyNonces[1].key, TEST_BLOCK_NONCE, U32(1))}
    \cup {Block_new(KeyNonces[1].key, KeyNonces[1].nonce, LAST_COUNTERS[c]) :
            c \in 1..Len(LAST_COUNTERS)}

\* the 16-byte nonces of the hchacha20 calls: the one of test_h_cha_cha_20
\* and the first 16 bytes of the 24-byte nonce of the second run
HNonces ==
  << <<0, 0, 0, 9, 0, 0, 0, 74, 0, 0, 0, 0, 49, 65, 89, 39>>,
     SliceTo(KeyNonces[2].nonce, 16) >>

\* the most quarter_round calls on one State
MaxQuarterRounds == 1

BlockIdle ==
  b_block = None /\ b_state = None /\ b_call = None /\ b_depth = 0
    /\ b_key = None

BlockInit ==
  /\ b_block \in BlockInputs
  /\ b_state = TEST_STATE
  /\ b_call = None
  /\ b_depth = 0
  /\ b_key = None

\* state = block.next_nth_state(n)
NextNthState(n) ==
  /\ b_state' = next_nth_state(b_block, n)
  /\ b_call' = <<"next_nth_state", n>>
  /\ b_depth' = 0
  /\ UNCHANGED <<b_block, b_key, cipher_vars, mac_vars, stream_vars,
                 cursor_vars, par_vars, pool_vars>>

\* state = block.next_nth_block(n)
NextNthBlock(n) ==
  /\ b_state' = next_nth_block(b_block, n)
  /\ b_call' = <<"next_nth_block", n>>
  /\ b_depth' = 0
  /\ UNCHANGED <<b_block, b_key, cipher_vars, mac_vars, stream_vars,
                 cursor_vars, par_vars, pool_vars>>

\* state.quarter_round(a, b, c, d) with the indices of the k-th call of the
\* loop body of inner_block
QuarterRound(k) ==
  /\ b_depth < MaxQuarterRounds
  /\ b_state' = State_quarter_round(b_state, QR_ARGS[k][1], QR_ARGS[k][2],
                                    QR_ARGS[k][3], QR_ARGS[k][4])
  /\ b_call' = <<"quarter_round", QR_ARGS[k]>>
  /\ b_depth' = b_depth + 1
  /\ UNCHANGED <<b_block, b_key, cipher_vars, mac_vars, stream_vars,
                 cursor_vars, par_vars, pool_vars>>

\* b_key = hchacha20(key, nonce) with the key of the Block and the k-th nonce
HChaCha20(k) ==
  /\ b_key' = hchacha20(Block_key(b_block), HNonces[k])
  /\ b_call' = <<"hchacha20", k>>
  /\ UNCHANGED <<b_block, b_state, b_depth, cipher_vars, mac_vars,
                 stream_vars, cursor_vars, par_vars, pool_vars>>

(***************************************************************************)
(* Specifications                                                          *)
(***************************************************************************)
IdleInit ==
  CipherIdle /\ MacIdle /\ StreamIdle /\ CursorIdle /\ BlockIdle /\ ParIdle
    /\ PoolIdle

InitCipher ==
  CipherInit /\ MacIdle /\ StreamIdle /\ CursorIdle /\ BlockIdle
    /\ ParIdle /\ PoolIdle
NextCipher == (\E n \in SliceLens : Encrypt(n)) \/ RoundTrip
SpecCipher == InitCipher /\ [][NextCipher]_vars

InitMac ==
  MacInit /\ CipherIdle /\ StreamIdle /\ CursorIdle /\ BlockIdle
    /\ ParIdle /\ PoolIdle
NextMac ==
  \/ \E n \in PieceLens : Update(n)
  \/ Finalize
SpecMac == InitMac /\ [][NextMac]_vars

InitStream ==
  StreamInit /\ CipherIdle /\ MacIdle /\ CursorIdle /\ BlockIdle
    /\ ParIdle /\ PoolIdle
NextStream ==
  \/ \E n \in WriteLens, chunk \in WChunks, budget \in WBudgets :
       WriterPoll(n, chunk, budget)
  \/ \E budget \in WBudgets : WriterShutdown(budget)
  \/ \E chunk \in RChunks, fail \in RFails : ReaderPoll(chunk, fail)
  \/ \E cap \in RCaps : ReaderTake(cap)
SpecStream == InitStream /\ [][NextStream]_vars

InitCursor ==
  CursorInit /\ CipherIdle /\ MacIdle /\ StreamIdle /\ BlockIdle
    /\ ParIdle /\ PoolIdle
NextCursor ==
  \/ \E n \in FromLens, to_len \in ToLens : CursorEncrypt(n, to_len)
  \/ \E n \in ChunkLens : CursorDecrypt(n)
SpecCursor == InitCursor /\ [][NextCursor]_vars

InitWrap ==
  WrapInit /\ MacIdle /\ StreamIdle /\ CursorIdle /\ BlockIdle
    /\ ParIdle /\ PoolIdle
SpecWrap == InitWrap /\ [][NextCipher]_vars

InitPar ==
  ParInit /\ CipherIdle /\ MacIdle /\ StreamIdle /\ CursorIdle /\ BlockIdle
    /\ PoolIdle
NextPar ==
  \/ \E n \in ParBigLens \cup ParLens : EncryptPar(n, TRUE)
  \/ \E n \in ParBigLens \cup ParLens : EncryptPar(n, FALSE)
  \/ \E n \in AutoBigLens \cup ParLens : EncryptAuto(n)
SpecPar == InitPar /\ [][NextPar]_vars

InitPool ==
  PoolInit /\ CipherIdle /\ MacIdle /\ StreamIdle /\ CursorIdle /\ BlockIdle
NextPool ==
  \/ \E n \in PoolLens : PoolBegin(n)
  \/ \E i \in 1..Len(t_next) : PoolWork(i)
  \/ PoolJoin
SpecPool == InitPool /\ [][NextPool]_vars

InitBlock ==
  BlockInit /\ CipherIdle /\ MacIdle /\ StreamIdle /\ CursorIdle
    /\ ParIdle /\ PoolIdle
NextBlock ==
  \/ \E n \in 0..MaxNth : NextNthState(n)
  \/ \E n \in 0..MaxNth : NextNthBlock(n)
  \/ \E k \in 1..Len(QR_ARGS) : QuarterRound(k)
  \/ \E k \in 1..Len(HNonces) : HChaCha20(k)
SpecBlock == InitBlock /\ [][NextBlock]_vars

(***************************************************************************)
(* C1  Split invariance: the slices encrypted one after the other by one   *)
(* cipher hold the same bytes as the whole buffer encrypted in one call by *)
(* a fresh cipher of the same key and nonce.                               *)
(***************************************************************************)
C1_SplitInvariance ==
  c_cipher # None =>
    c_out = encrypt(Cipher_of(c_key, c_nonce), c_plain).buf

\* more bytes than one call takes here, so at least two slices, the last of
\* them ending inside a keystream block
C1_Witness ==
  /\ c_cipher # None
  /\ Len(c_plain) > 2 * BLOCK_SIZE
  /\ c_cipher.leftover # None
  /\ c_out # c_plain

(***************************************************************************)
(* C4  Cipher round trip: a message encrypted by a fresh cipher and then   *)
(* by another fresh cipher of the same key and nonce is the message again. *)
(***************************************************************************)
C4_RoundTrip == c_rt # None => c_rt[3] = c_rt[1]

\* a round trip of a message longer than one block, under the 24-byte nonce
C4_Witness ==
  /\ c_rt # None
  /\ Len(c_rt[1]) > BLOCK_SIZE
  /\ c_rt[2] # c_rt[1]
  /\ Len(c_nonce) = X_NONCE_BYTES

(***************************************************************************)
(* C5  Poly1305 chunking independence: finalize after any split of the     *)
(* message into update calls is the tag of one update of the whole message *)
(* and the tag of poly1305_mac.                                            *)
(***************************************************************************)
C5_ChunkingIndependence ==
  m_hasher # None =>
    /\ Poly1305Hasher_finalize(m_hasher)
         = Poly1305Hasher_finalize(
             Poly1305Hasher_update(Poly1305Hasher_new(m_key), m_msg))
    /\ Poly1305Hasher_finalize(m_hasher) = poly1305_mac(m_key, m_msg)

\* pieces that crossed a 16-byte boundary and left a partial block
C5_Witness ==
  /\ m_hasher # None
  /\ Len(m_msg) > 2 * BLOCK_BYTES
  /\ m_hasher.block # <<>>
  /\ m_hasher.cum # <<>>

(***************************************************************************)
(* C3  Cursor framing round trip: whatever the sizes of `from` and `to` in *)
(* the encrypt calls and of the buffers given to decrypt, the user data    *)
(* the DecryptCursor has given back is the consumed plaintext, in order:   *)
(* as many bytes of it as have come through after the nonce, and all of it *)
(* once all the output of the EncryptCursor has been given to decrypt.     *)
(***************************************************************************)
C3_CursorRoundTrip ==
  en # None =>
    /\ Len(k_plain) = IF k_fed > Len(KCfg.nonce) THEN k_fed - Len(KCfg.nonce)
                      ELSE 0
    /\ k_plain = SliceTo(k_consumed, Len(k_plain))
    /\ k_fed = Len(k_wire) => k_plain = k_consumed

\* under the 24-byte nonce, a decrypt call took the end of the nonce and user
\* data in one buffer, and all the consumed plaintext has come back
C3_Witness ==
  /\ en # None
  /\ Len(KCfg.nonce) = X_NONCE_BYTES
  /\ k_result # None
  /\ k_result # StillAtNonce
  /\ k_result[2] > 0
  /\ Len(k_consumed) > 1
  /\ k_fed = Len(k_wire)

(***************************************************************************)
(* Stream claims                                                           *)
(***************************************************************************)
\* the nonce prefix P of the run and the ciphertext C of the plaintext given
\* to poll_write so far
WireNonce == IF Cfg.write_nonce THEN Cfg.nonce ELSE <<>>
WireCiphertext == xor(w_offered, KeyStreams[s_cfg])

(***************************************************************************)
(* C6  Write-side wire framing: the bytes the transport has accepted are   *)
(* always a prefix of P \o C, P the whole nonce when write_nonce is set    *)
(* and empty otherwise, C the ciphertext; the nonce write goes on, after a *)
(* Pending, at the next unwritten nonce byte.                              *)
(***************************************************************************)
C6_WireFraming ==
  writer # None =>
    LET PC == WireNonce \o WireCiphertext
    IN  /\ Len(wire) <= Len(PC)
        /\ wire = SliceTo(PC, Len(wire))
        /\ writer.write_all_nonce.buf_pos = Min(Len(wire), Len(WireNonce))

\* the 24-byte nonce went out in polls that took 5 bytes each and answered
\* Pending, and the poll that completed it left half of the staged ciphertext
\* in the writer
C6_Witness ==
  /\ writer # None
  /\ Len(WireNonce) = X_NONCE_BYTES
  /\ w_result = Pending
  /\ writer.chacha20.buf_pos > 0
  /\ writer.chacha20.buf_pos < Len(writer.chacha20.buf)
  /\ Len(wire) = X_NONCE_BYTES + writer.chacha20.buf_pos

(***************************************************************************)
(* C7  Read-side nonce absorption: the reader takes exactly the first 12   *)
(* or 24 bytes of the transport as the nonce, over as many polls as it     *)
(* needs, puts none of them into the caller's buffer, builds the cipher    *)
(* once all of them have arrived and from exactly those bytes, and from    *)
(* then on keeps that cipher and reads no nonce again.                     *)
(***************************************************************************)
C7_NonceState ==
  reader # None =>
    LET n == Len(reader.nonce_buf)
        pos == reader.read_exact_nonce.buf_pos
    IN  /\ pos = Min(r_pos, n)
        /\ SliceTo(reader.nonce_buf, pos) = SliceTo(wire, pos)
        /\ Len(r_delivered) + Len(rb.filled) = r_pos - pos
        /\ (reader.chacha20 # None) <=> (pos = n)
        /\ reader.chacha20 # None =>
             /\ reader.chacha20.cipher.block.key
                  = writer.chacha20.cipher.block.key
             /\ Block_nonce(reader.chacha20.cipher.block)
                  = IF n = NONCE_BYTES THEN SliceTo(wire, n)
                    ELSE chacha20_nonce_from_xnonce(SliceTo(wire, n))

C7_NonceStep ==
  (reader # None /\ reader.chacha20 # None) =>
    /\ reader'.nonce_buf = reader.nonce_buf
    /\ reader'.read_exact_nonce = reader.read_exact_nonce
    /\ reader'.chacha20 # None
    /\ reader'.chacha20.cipher.block.key = reader.chacha20.cipher.block.key
    /\ reader'.chacha20.cipher.block.nonce = reader.chacha20.cipher.block.nonce
    /\ KeystreamUsed(reader'.chacha20.cipher)
         >= KeystreamUsed(reader.chacha20.cipher)

\* C7: the nonce is absorbed as C7_NonceState says in every state, and as
\* C7_NonceStep says in every step
C7_NonceAbsorption == [](C7_NonceState) /\ [][C7_NonceStep]_vars

\* the 24-byte nonce has arrived, the cipher is built and the caller has
\* taken decrypted bytes
C7_Witness ==
  /\ reader # None
  /\ Len(reader.nonce_buf) = X_NONCE_BYTES
  /\ reader.chacha20 # None
  /\ r_pos > X_NONCE_BYTES
  /\ r_delivered # <<>>

(***************************************************************************)
(* C2  Stream round trip: the bytes the reader has delivered to its caller *)
(* are the plaintext given to the writer, in order, also when the caller   *)
(* polls again with a ReadBuf that holds bytes of earlier polls.           *)
(***************************************************************************)
C2_StreamRoundTrip ==
  reader # None =>
    LET got == r_delivered \o rb.filled
    IN  /\ Len(got) <= Len(w_offered)
        /\ got = SliceTo(w_offered, Len(got))

(***************************************************************************)
(* C8  Trailing tag on shutdown: with hashing enabled, once poll_shutdown  *)
(* has shut the transport down, the transport holds the nonce, the         *)
(* ciphertext and then the 16-byte Poly1305 tag.                           *)
(***************************************************************************)
C8_TagOnShutdown ==
  (writer # None /\ Cfg.hash /\ w_shutdown) =>
    wire = WireNonce \o WireCiphertext
             \o Poly1305Hasher_finalize(writer.chacha20.hasher)

(***************************************************************************)
(* C9  Tag agreement: with hashing on both sides, once the reader has read *)
(* every ciphertext byte the writer produced, finalize of the read-side    *)
(* hasher is finalize of the write-side hasher, and both are               *)
(* Poly1305(otk, ciphertext on the wire).                                  *)
(***************************************************************************)
C9_TagAgreement ==
  (/\ reader # None
   /\ reader.chacha20 # None
   /\ reader.chacha20.hasher # None
   /\ writer.chacha20.buf_pos = Len(writer.chacha20.buf)
   /\ r_pos = Len(wire)) =>
    LET tag == poly1305_mac(OneTimeKeys[s_cfg],
                            SliceFrom(wire, Len(WireNonce)))
    IN  /\ Poly1305Hasher_finalize(reader.chacha20.hasher) = tag
        /\ Poly1305Hasher_finalize(writer.chacha20.hasher) = tag

(***************************************************************************)
(* C10  ChaCha20ReadState::poll touches only the newly filled region: the  *)
(* bytes that were filled before the poll stay as they were, the hasher    *)
(* takes in the bytes this poll read and no others, and a poll that reads  *)
(* no byte uses no keystream.                                              *)
(***************************************************************************)
C10_Step ==
  (reader # None /\ reader.chacha20 # None /\ r_delivered' = r_delivered) =>
    /\ SliceTo(rb'.filled, Len(rb.filled)) = rb.filled
    /\ reader'.chacha20.hasher
         = IF reader.chacha20.hasher # None
           THEN Poly1305Hasher_update(reader.chacha20.hasher,
                                      SubSeq(wire, r_pos + 1, r_pos'))
           ELSE None
    /\ r_pos' = r_pos => reader'.chacha20.cipher = reader.chacha20.cipher

\* C10: every poll of the reader touches only the newly filled region
C10_NewlyFilledOnly == [][C10_Step]_vars

(***************************************************************************)
(* C11  Write staging, exactly once: the caller offers a buffer again      *)
(* until poll_write answers Ok. Every offered byte that has reached the    *)
(* ChaCha20WriteState was staged once, encrypted once with the next        *)
(* keystream byte and hashed once as ciphertext; every staged byte is      *)
(* either on the transport or still waiting in the inner buffer, in order, *)
(* and the transport holds, after the nonce, a prefix of the ciphertext of *)
(* the concatenation of the offered buffers.                               *)
(***************************************************************************)
C11_StagedOnce ==
  writer # None =>
    LET st == writer.chacha20
        sent == SliceFrom(wire, Min(Len(wire), Len(WireNonce)))
        used == KeystreamUsed(st.cipher)
    IN  /\ sent = SliceTo(WireCiphertext, Len(sent))
        /\ Len(sent) + (Len(st.buf) - st.buf_pos) = used
        /\ SliceFrom(st.buf, st.buf_pos)
             = SubSeq(WireCiphertext, Len(sent) + 1, used)
        /\ \/ used = Len(w_offered)
           \/ /\ w_inflight # <<>>
              /\ used = Len(w_offered) - Len(w_inflight[1])
        /\ w_inflight = <<>> => used = Len(w_offered)
        /\ st.hasher # None =>
             st.hasher = Poly1305Hasher_update(
                           Poly1305Hasher_new(OneTimeKeys[s_cfg]),
                           SliceTo(WireCiphertext, used))

\* with hashing on, a second buffer is staged, the transport has taken one of
\* its two bytes and the poll has answered Pending
C11_Witness ==
  /\ writer # None
  /\ writer.chacha20.hasher # None
  /\ w_result = Pending
  /\ Len(w_offered) = 4
  /\ Len(writer.chacha20.buf) = 2
  /\ writer.chacha20.buf_pos = 1

(***************************************************************************)
(* C12  ChaCha20WriteState::poll answers Ready(Ok(n)) only when the        *)
(* transport has taken every staged byte, and then n is buf.len(); while   *)
(* staged bytes wait in the inner buffer the answer is not Ready(Ok).      *)
(***************************************************************************)
C12_Step ==
  (writer # None /\ w_shutdown' = w_shutdown /\ writer_vars' # writer_vars) =>
    LET buf == IF w_inflight # <<>> THEN w_inflight[1]
               ELSE SliceFrom(w_offered', Len(w_offered))
        st == writer'.chacha20
    IN  /\ w_result'[1] = "Ok" =>
             /\ st.buf_pos = Len(st.buf)
             /\ w_result' = Ok(Len(buf))
        /\ st.buf_pos < Len(st.buf) => w_result'[1] # "Ok"

\* C12: every poll of the writer answers Ok only with the inner buffer drained
C12_OkOnlyWhenDrained == [][C12_Step]_vars

\* without a nonce to write, the transport took one of the two staged bytes
\* and the poll answered Pending
C12_Witness ==
  /\ writer # None
  /\ ~Cfg.write_nonce
  /\ w_result = Pending
  /\ writer.chacha20.buf_pos = 1
  /\ Len(writer.chacha20.buf) = 2
  /\ Len(wire) = 1

(***************************************************************************)
(* C13  End of file inside the nonce: when the transport has ended before  *)
(* all 12 or 24 nonce bytes arrived (none at all included), poll_read      *)
(* answers UnexpectedEof and fills nothing; it never answers Ok with       *)
(* nothing filled while the nonce is incomplete.                           *)
(***************************************************************************)
C13_EofInNonce ==
  reader # None =>
    /\ (w_shutdown /\ Len(wire) < Len(reader.nonce_buf)) =>
         \A chunk \in RChunks :
           LET a == NonceCiphertextReader_poll_read(
                      reader,
                      [wire |-> wire, eof |-> TRUE, pos |-> r_pos,
                       chunk |-> chunk, fail |-> None],
                      rb)
           IN  /\ a.result = Err("UnexpectedEof")
               /\ a.buf = rb
               /\ a.self.chacha20 = None
    /\ (r_result # None /\ r_result[1] = "Ok") =>
         /\ reader.chacha20 # None
         /\ reader.read_exact_nonce.buf_pos = Len(reader.nonce_buf)
         /\ Len(wire) >= Len(reader.nonce_buf)

\* the transport ended inside the nonce and poll_read answered UnexpectedEof
C13_Witness ==
  /\ reader # None
  /\ w_shutdown
  /\ r_result = Err("UnexpectedEof")
  /\ reader.read_exact_nonce.buf_pos > 0
  /\ reader.read_exact_nonce.buf_pos < Len(reader.nonce_buf)
  /\ rb.filled = <<>>

(***************************************************************************)
(* C14  ReadExactState::poll on the nonce buffer, from every state a run   *)
(* reaches: it answers Ok(buf.len()) exactly when buf.len() bytes are in   *)
(* place, in stream order; the bytes of earlier polls are kept and filling *)
(* goes on at buf_pos; it answers UnexpectedEof exactly when the transport *)
(* ends while bytes are missing, Pending exactly when bytes are missing    *)
(* and the transport has none yet; once complete, or on an empty buffer,   *)
(* it answers Ok without polling the transport.                            *)
(***************************************************************************)
C14_ReadExact ==
  reader # None =>
    \A chunk \in RChunks :
      LET self == reader.read_exact_nonce
          r == [wire |-> wire, eof |-> w_shutdown, pos |-> r_pos,
                chunk |-> chunk, fail |-> None]
          a == ReadExactState_poll(self, r, reader.nonce_buf)
          e == ReadExactState_poll(ReadExactState_new, r, <<>>)
          n == Len(reader.nonce_buf)
          got == a.self.buf_pos - self.buf_pos
          avail == Len(wire) - r_pos
      IN  /\ a.result = Ok(n) <=> a.self.buf_pos = n
          /\ a.result[1] = "Ok" => a.result = Ok(n)
          /\ Len(a.bytes) = n
          /\ SliceTo(a.bytes, self.buf_pos)
               = SliceTo(reader.nonce_buf, self.buf_pos)
          /\ got >= 0
          /\ a.r.pos = r_pos + got
          /\ SubSeq(a.bytes, self.buf_pos + 1, a.self.buf_pos)
               = SubSeq(wire, r_pos + 1, r_pos + got)
          /\ a.result = Err("UnexpectedEof")
               <=> (w_shutdown /\ avail < n - self.buf_pos)
          /\ a.result = Pending
               <=> (~w_shutdown /\ avail < n - self.buf_pos)
          /\ self.buf_pos = n => (a.result = Ok(n) /\ a.r = r)
          /\ e.result = Ok(0) /\ e.r = r /\ e.self = ReadExactState_new

\* part of the nonce is in place and the poll has answered Pending: the next
\* poll goes on at buf_pos
C14_Witness ==
  /\ reader # None
  /\ ~w_shutdown
  /\ r_result = Pending
  /\ reader.read_exact_nonce.buf_pos > 0
  /\ reader.read_exact_nonce.buf_pos < Len(reader.nonce_buf)
  /\ reader.nonce_buf # NonceCiphertextReader_new(Cfg.hash, Cfg.key,
                                                  Len(Cfg.nonce)).nonce_buf

(***************************************************************************)
(* C15  WriteAllState::poll on the nonce, from every state a run reaches   *)
(* and under every transport: it answers Ok exactly when every byte of the *)
(* buffer has been accepted; the transport receives the bytes once, in     *)
(* order, going on at buf_pos; it answers WriteZero exactly when the       *)
(* transport takes no byte while bytes remain, Pending exactly when the    *)
(* transport answers Pending while bytes remain; once complete, or on an   *)
(* empty buffer, it answers Ok without polling the transport.              *)
(***************************************************************************)
C15_WriteAll ==
  (writer # None /\ writer.nonce # None) =>
    \A chunk \in WChunks, budget \in WBudgets :
      LET self == writer.write_all_nonce
          w == [wire |-> wire, chunk |-> chunk, budget |-> budget]
          a == WriteAllState_poll(self, w, writer.nonce)
          e == WriteAllState_poll(WriteAllState_new, w, <<>>)
          n == Len(writer.nonce)
          left == n - self.buf_pos
      IN  /\ a.result = Ok(<<>>) <=> a.self.buf_pos = n
          /\ a.self.buf_pos >= self.buf_pos
          /\ a.self.buf_pos <= n
          /\ a.w.wire
               = wire \o SubSeq(writer.nonce, self.buf_pos + 1, a.self.buf_pos)
          /\ a.result = Err("WriteZero")
               <=> (left > 0 /\ budget > 0 /\ chunk = 0)
          /\ a.result = Pending
               <=> (left > 0 /\ (budget = 0 \/ (chunk > 0 /\ budget < left)))
          /\ left = 0 => (a.result = Ok(<<>>) /\ a.w = w)
          /\ e.result = Ok(<<>>) /\ e.w = w /\ e.self = WriteAllState_new

\* part of the nonce was accepted in an earlier poll, then the transport took
\* no byte and the poll answered WriteZero
C15_Witness ==
  /\ writer # None
  /\ writer.nonce # None
  /\ w_result = Err("WriteZero")
  /\ writer.write_all_nonce.buf_pos > 0
  /\ writer.write_all_nonce.buf_pos < Len(writer.nonce)
  /\ wire = SliceTo(writer.nonce, writer.write_all_nonce.buf_pos)

(***************************************************************************)
(* Cursor claims                                                           *)
(***************************************************************************)
(***************************************************************************)
(* C16  EncryptCursor::encrypt(from, to), from every state a run reaches   *)
(* and for every length of `from` and `to`: in the nonce state it copies   *)
(* min(remaining nonce, |to|) nonce bytes to the front of `to`; when `to`  *)
(* ends before the nonce it returns {read: 0, written: n} and stays in the *)
(* nonce state; with the nonce done it copies min(|from|, room left in     *)
(* `to`) bytes of `from`, XORed with the next keystream bytes, and returns *)
(* {read: n, written: n + nonce bytes of this call}; read <= |from|,       *)
(* written <= |to| and written - read is the nonce bytes of this call.     *)
(***************************************************************************)
C16_EncryptResult ==
  en # None =>
    \A n \in FromLens, to_len \in ToLens :
      Len(k_consumed) + n <= MaxCursorPlain =>
        LET from == PlainSlice(KCfg.seed, Len(k_consumed), n)
            a == EncryptCursor_encrypt(en, from, to_len)
            rem == IF en.state.tag = "Nonce" THEN remaining_nonce(en.state)
                   ELSE <<>>
            nonce_n == Min(Len(rem), to_len)
            data_n == Min(n, to_len - nonce_n)
        IN  /\ SliceTo(a.to, nonce_n) = SliceTo(rem, nonce_n)
            /\ nonce_n < Len(rem) =>
                 /\ a.read = 0
                 /\ a.written = nonce_n
                 /\ a.self.state.tag = "Nonce"
                 /\ remaining_nonce(a.self.state) = SliceFrom(rem, nonce_n)
            /\ nonce_n = Len(rem) =>
                 /\ a.self.state.tag = "UserData"
                 /\ a.read = data_n
                 /\ a.written = data_n + nonce_n
                 /\ SliceFrom(a.to, nonce_n)
                      = xor(SliceTo(from, data_n),
                            SliceFrom(KeyStreams[k_cfg], Len(k_consumed)))
            /\ Len(a.to) = a.written
            /\ a.read <= n
            /\ a.written <= to_len
            /\ a.written - a.read = nonce_n

\* under the 12-byte nonce one encrypt call with a `to` of 13 bytes has
\* emitted the nonce and one byte of user data
C16_Witness ==
  /\ en # None
  /\ Len(KCfg.nonce) = NONCE_BYTES
  /\ en.state.tag = "UserData"
  /\ Len(k_wire) = NONCE_BYTES + 1
  /\ Len(k_consumed) = 1
  /\ k_fed = 0

(***************************************************************************)
(* C17  DecryptCursor::decrypt(buf), from every state a run reaches and    *)
(* for every length of buf: in the nonce state it takes bytes from the     *)
(* front of buf only until the nonce is complete; when buf ends first it   *)
(* returns StillAtNonce and leaves buf as it was; otherwise the cursor is  *)
(* in UserData, exactly buf[user_data_start..] is XORed with the next      *)
(* keystream bytes, and it returns WithUserData with user_data_start the   *)
(* bytes taken as nonce in this call (0 when it was in UserData already).  *)
(***************************************************************************)
C17_DecryptResult ==
  de # None =>
    \A n \in ChunkLens :
      k_fed + n <= Len(k_wire) =>
        LET buf == SubSeq(k_wire, k_fed + 1, k_fed + n)
            a == DecryptCursor_decrypt(de, buf)
            rem == DecryptCursor_remaining_nonce_size(de)
            done == IF k_fed > Len(KCfg.nonce) THEN k_fed - Len(KCfg.nonce)
                    ELSE 0
        IN  IF n < rem
            THEN /\ a.result = StillAtNonce
                 /\ a.buf = buf
                 /\ a.self.state.tag = "Nonce"
                 /\ remaining_nonce_size(a.self.state) = rem - n
            ELSE /\ a.self.state.tag = "UserData"
                 /\ a.result = WithUserData(rem)
                 /\ SliceTo(a.buf, rem) = SliceTo(buf, rem)
                 /\ SliceFrom(a.buf, rem)
                      = xor(SliceFrom(buf, rem),
                            SliceFrom(KeyStreams[k_cfg], done))

(***************************************************************************)
(* C18  One-way lifecycle: both cursors start in the nonce state; a cursor *)
(* is in UserData exactly when all 12 (or 24) nonce bytes have been        *)
(* emitted or absorbed, so it moves there in the call that handles the     *)
(* last nonce byte; from UserData no call leads back to the nonce state;   *)
(* the nonce buffer keeps the length it was built with, and the cipher of  *)
(* the UserData state is the one of the run's key and nonce.               *)
(***************************************************************************)
C18_Start ==
  en # None =>
    /\ en.state.tag = "Nonce"
    /\ de.state.tag = "Nonce"
    /\ en.state.nonce.buf = KCfg.nonce
    /\ en.state.nonce.pos = 0
    /\ de.state.nonce.pos = 0
    /\ Len(de.state.nonce.buf) = Len(KCfg.nonce)

C18_Step ==
  en # None =>
    /\ en.state.tag = "UserData" => en'.state.tag = "UserData"
    /\ de.state.tag = "UserData" => de'.state.tag = "UserData"
    /\ (en.state.tag = "Nonce" /\ en'.state.tag = "UserData")
         <=> (Len(k_wire) < Len(KCfg.nonce) /\ Len(k_wire') >= Len(KCfg.nonce))
    /\ (de.state.tag = "Nonce" /\ de'.state.tag = "UserData")
         <=> (k_fed < Len(KCfg.nonce) /\ k_fed' >= Len(KCfg.nonce))
    /\ en'.state.tag = "Nonce" =>
         /\ en'.state.nonce.buf = KCfg.nonce
         /\ en'.state.nonce.pos = Len(k_wire')
    /\ de'.state.tag = "Nonce" =>
         /\ Len(de'.state.nonce.buf) = Len(KCfg.nonce)
         /\ de'.state.nonce.pos = k_fed'
    /\ (en.state.tag = "Nonce" /\ en'.state.tag = "UserData") =>
         /\ en'.state.cipher.block.key
              = Cipher_of(KCfg.key, KCfg.nonce).block.key
         /\ en'.state.cipher.block.nonce
              = Cipher_of(KCfg.key, KCfg.nonce).block.nonce
    /\ (de.state.tag = "Nonce" /\ de'.state.tag = "UserData") =>
         /\ de'.state.cipher.block.key
              = Cipher_of(KCfg.key, KCfg.nonce).block.key
         /\ de'.state.cipher.block.nonce
              = Cipher_of(KCfg.key, KCfg.nonce).block.nonce
    /\ (en.state.tag = "UserData" /\ en'.state.tag = "UserData") =>
         /\ en'.state.cipher.block.key = en.state.cipher.block.key
         /\ en'.state.cipher.block.nonce = en.state.cipher.block.nonce
    /\ (de.state.tag = "UserData" /\ de'.state.tag = "UserData") =>
         /\ de'.state.cipher.block.key = de.state.cipher.block.key
         /\ de'.state.cipher.block.nonce = de.state.cipher.block.nonce

\* C18: the cursors start in the nonce state and every call keeps the
\* lifecycle one-way
C18_OneWay == C18_Start /\ [][C18_Step]_vars

\* the EncryptCursor has moved to UserData and the DecryptCursor, part of the
\* nonce absorbed, is still in the nonce state
C18_Witness ==
  /\ en # None
  /\ en.state.tag = "UserData"
  /\ de.state.tag = "Nonce"
  /\ k_fed > 0
  /\ k_consumed # <<>>

(***************************************************************************)
(* C19  Between calls, a cursor in the nonce state has at least one nonce  *)
(* byte left to emit or absorb, and DecryptCursor::remaining_nonce_size()  *)
(* is 0 exactly when the DecryptCursor is in UserData.                     *)
(***************************************************************************)
C19_RemainingNonce ==
  en # None =>
    /\ en.state.tag = "Nonce" => remaining_nonce(en.state) # <<>>
    /\ en.state.tag = "Nonce" =>
         Len(remaining_nonce(en.state)) = Len(KCfg.nonce) - Len(k_wire)
    /\ de.state.tag = "Nonce" => remaining_nonce_size(de.state) > 0
    /\ DecryptCursor_remaining_nonce_size(de) = 0 <=> de.state.tag = "UserData"
    /\ DecryptCursor_remaining_nonce_size(de)
         = IF k_fed < Len(KCfg.nonce) THEN Len(KCfg.nonce) - k_fed ELSE 0

\* a decrypt call on exactly the missing nonce bytes has moved the
\* DecryptCursor to UserData with no user data seen yet
C19_Witness ==
  /\ de # None
  /\ de.state.tag = "UserData"
  /\ k_fed = Len(KCfg.nonce)
  /\ DecryptCursor_remaining_nonce_size(de) = 0
  /\ k_result = StillAtNonce
  /\ k_plain = <<>>

(***************************************************************************)
(* C20  EncryptCursor::poly1305_key() is OneTimeKeyGen(K, N), K the key    *)
(* the cursor was built with and N the 12-byte nonce or, of a 24-byte      *)
(* nonce, four zero bytes and its bytes 16..24: the same value before,     *)
(* during and after the emission of the nonce.                             *)
(***************************************************************************)
C20_OneTimeKey ==
  en # None =>
    EncryptCursor_poly1305_key(en)
      = poly1305_key_gen(KCfg.key,
                         IF Len(KCfg.nonce) = NONCE_BYTES THEN KCfg.nonce
                         ELSE chacha20_nonce_from_xnonce(KCfg.nonce))

(***************************************************************************)
(* C24  Counter and leftover: after a fresh StreamCipher has encrypted N   *)
(* bytes over any sequence of calls, its counter is 1 + ceil(N / 64);      *)
(* leftover is None when 64 divides N and else Some((b, N mod 64)), b the  *)
(* keystream block of counter 1 + floor(N / 64), so 0 < offset < 64; a     *)
(* call takes the bytes of the leftover before it makes a new block, and a *)
(* call that only takes bytes of the leftover leaves the counter alone.    *)
(***************************************************************************)
C24_State ==
  c_cipher # None =>
    LET N == Len(c_plain)
        fresh == Cipher_of(c_key, c_nonce)
    IN  /\ c_cipher.block.counter = U32(1 + ((N + BLOCK_SIZE - 1) \div BLOCK_SIZE))
        /\ c_cipher.block.key = fresh.block.key
        /\ c_cipher.block.nonce = fresh.block.nonce
        /\ N % BLOCK_SIZE = 0 => c_cipher.leftover = None
        /\ N % BLOCK_SIZE # 0 =>
             c_cipher.leftover
               = <<next_nth_block(fresh.block, N \div BLOCK_SIZE),
                   N % BLOCK_SIZE>>
        /\ c_cipher.leftover # None =>
             (0 < c_cipher.leftover[2] /\ c_cipher.leftover[2] < BLOCK_SIZE)

C24_Step ==
  (c_cipher # None /\ c_cipher.leftover # None /\ c_plain' # c_plain) =>
    LET n == Len(c_plain') - Len(c_plain)
        off == c_cipher.leftover[2]
        take == Min(n, BLOCK_SIZE - off)
        left == SubSeq(byte_vec(c_cipher.leftover[1]), off + 1, off + take)
    IN  /\ SubSeq(c_out', Len(c_out) + 1, Len(c_out) + take)
             = xor(SubSeq(c_plain', Len(c_plain) + 1, Len(c_plain) + take),
                   left)
        /\ n <= BLOCK_SIZE - off =>
             c_cipher'.block.counter = c_cipher.block.counter
        /\ n < BLOCK_SIZE - off =>
             c_cipher'.leftover = <<c_cipher.leftover[1], off + n>>

\* C24: the counter and the leftover follow the number of bytes encrypted
C24_CounterLeftover == []C24_State /\ [][C24_Step]_vars

\* 129 bytes are encrypted: the counter is 4 and one byte of the block of
\* counter 3 is used
C24_Witness ==
  /\ c_cipher # None
  /\ Len(c_plain) = 129
  /\ c_cipher.block.counter = U32(4)
  /\ c_cipher.leftover # None
  /\ c_cipher.leftover[2] = 1

(***************************************************************************)
(* C22  When the transport's poll_read answers Pending or Err(e),          *)
(* ChaCha20ReadState::poll answers Pending or the same Err(e); in that     *)
(* call the keystream position and the hasher stay as they were and no     *)
(* byte of the caller's buffer changes.                                    *)
(***************************************************************************)
C22_PassThrough ==
  (reader # None /\ reader.chacha20 # None) =>
    \A chunk \in RChunks, fail \in RFails :
      LET r == [wire |-> wire, eof |-> w_shutdown, pos |-> r_pos,
                chunk |-> chunk, fail |-> fail]
          t == R_poll_read(r, remaining(rb))
          a == ChaCha20ReadState_poll(reader.chacha20, r, rb)
          n == NonceCiphertextReader_poll_read(reader, r, rb)
      IN  /\ fail # None => t.result = Err(fail[1])
          /\ t.result[1] # "Ok" =>
               /\ a.result = t.result
               /\ a.self = reader.chacha20
               /\ a.buf = rb
               /\ a.r = r
               /\ n.result = t.result
               /\ n.self = reader
               /\ n.buf = rb

\* the transport failed while the caller's buffer held decrypted bytes of an
\* earlier poll: the error came through and the bytes are as they were
C22_Witness ==
  /\ reader # None
  /\ reader.chacha20 # None
  /\ r_result = Err("ConnectionReset")
  /\ rb.filled # <<>>
  /\ KeystreamUsed(reader.chacha20.cipher) = Len(rb.filled)
  /\ r_delivered = <<>>

(***************************************************************************)
(* C23  poly1305_key_gen(key, nonce) is the first 32 bytes of the keystream *)
(* block of counter 0 under (key, nonce): it gives the key of RFC 8439      *)
(* section 2.6.2 for the input of test_key_gen, and the hashers of the      *)
(* writer and of the reader hold the constants of the key generated from    *)
(* the key and the 12-byte nonce of their own cipher.                       *)
(***************************************************************************)
\* test_key_gen: the key generated for key 80 81 .. 9f and nonce
\* 00 00 00 00 00 01 02 03 04 05 06 07
KeyGenVector ==
  poly1305_key_gen(Vec([i \in 1..KEY_BYTES |-> 127 + i]),
                   <<0, 0, 0, 0, 0, 1, 2, 3, 4, 5, 6, 7>>)

\* the first KEY_BYTES bytes a cipher of the key and nonce of `cipher` gives
\* when its counter is 0: zero bytes encrypted
CounterZeroKeystream(cipher) ==
  encrypt_([block |-> [cipher.block EXCEPT !.counter = U32(0)],
            leftover |-> None],
           Vec([i \in 1..KEY_BYTES |-> 0]), FALSE).buf

C23_KeyGen ==
  /\ KeyGenVector
       = <<138, 213, 160, 139, 144, 95, 129, 204, 129, 80, 64, 39, 74, 178, 148, 113,
           168, 51, 182, 55, 227, 253, 13, 165, 8, 219, 184, 226, 253, 209, 166, 70>>
  /\ writer # None =>
       LET cipher == writer.chacha20.cipher
           key == poly1305_key_gen(Block_key(cipher.block),
                                   Block_nonce(cipher.block))
       IN  /\ key = CounterZeroKeystream(cipher)
           /\ Len(key) = KEY_BYTES
           /\ Block_nonce(cipher.block)
                = (IF Len(Cfg.nonce) = NONCE_BYTES THEN Cfg.nonce
                   ELSE chacha20_nonce_from_xnonce(Cfg.nonce))
           /\ writer.chacha20.hasher # None =>
                writer.chacha20.hasher.c = calc_const(key)
  /\ (reader # None /\ reader.chacha20 # None) =>
       LET cipher == reader.chacha20.cipher
           key == poly1305_key_gen(Block_key(cipher.block),
                                   Block_nonce(cipher.block))
       IN  /\ key = CounterZeroKeystream(cipher)
           /\ reader.chacha20.hasher # None =>
                reader.chacha20.hasher.c = calc_const(key)

\* under the 24-byte nonce the reader has just built its ChaCha20ReadState and
\* hasher from the nonce it read, and no user data has come yet
C23_Witness ==
  /\ reader # None
  /\ Len(Cfg.nonce) = X_NONCE_BYTES
  /\ reader.chacha20 # None
  /\ reader.chacha20.hasher # None
  /\ r_pos = X_NONCE_BYTES
  /\ rb.filled = <<>>
  /\ reader.nonce_buf = Cfg.nonce

(***************************************************************************)
(* C28  quarter_round(a, b, c, d) is a += b; d ^= a; d <<<= 16; c += d;     *)
(* b ^= c; b <<<= 12; a += b; d ^= a; d <<<= 8; c += d; b ^= c; b <<<= 7   *)
(* on 32-bit words, it gives the words of test_quarter_round, and          *)
(* State::quarter_round(a, b, c, d) changes the four indexed words of the  *)
(* State to the quarter round of their values and no other word.           *)
(***************************************************************************)
\* test_quarter_round
QuarterRoundVector ==
  quarter_round(<<4369, 4369>>, <<258, 772>>,
                <<39821, 28483>>, <<291, 17767>>)

\* test_quarter_round_on_state
QuarterRoundOnStateVector == State_quarter_round(TEST_STATE, 2, 7, 8, 13)

\* the twelve operations of the quarter round on the words a, b, c, d, one
\* after another
QuarterRoundOps(a, b, c, d) ==
  LET a1 == wrapping_add(a, b)
      d1 == rotate_left(XorWord(d, a1), 16)
      c1 == wrapping_add(c, d1)
      b1 == rotate_left(XorWord(b, c1), 12)
      a2 == wrapping_add(a1, b1)
      d2 == rotate_left(XorWord(d1, a2), 8)
      c2 == wrapping_add(c1, d2)
      b2 == rotate_left(XorWord(b1, c2), 7)
  IN  <<a2, b2, c2, d2>>

C28_Step ==
  b_call'[1] = "quarter_round" =>
    LET idx == b_call'[2]
        q == QuarterRoundOps(b_state[idx[1] + 1], b_state[idx[2] + 1],
                             b_state[idx[3] + 1], b_state[idx[4] + 1])
    IN  /\ Len(b_state') = 16
        /\ \A k \in 1..4 : b_state'[idx[k] + 1] = q[k]
        /\ \A i \in 1..16 :
             (\A k \in 1..4 : idx[k] + 1 # i) => b_state'[i] = b_state[i]

C28_QuarterRound ==
  /\ QuarterRoundVector
       = <<<<59946, 37620>>, <<51996, 63694>>,
           <<17793, 18222>>, <<22657, 50363>>>>
  /\ QuarterRoundOnStateVector
       = << <<34709, 12768>>, <<50668, 62333>>, <<48568, 34524>>, <<51622, 12170>>,
          <<17602, 3827>>, <<13200, 44927>>, <<55804, 26891>>, <<53164, 45010>>,
          <<58475, 60032>>, <<45066, 22065>>, <<38732, 21530>>, <<13726, 39267>>,
          <<23703, 4193>>, <<52416, 31865>>, <<8344, 55766>>, <<37339, 54048>> >>
  /\ [][C28_Step]_vars

\* state.quarter_round(2, 7, 8, 13) has acted on the State of the test
C28_Witness ==
  /\ b_call = <<"quarter_round", <<2, 7, 8, 13>> >>
  /\ b_depth = 1
  /\ b_state[3] = <<48568, 34524>>
  /\ b_state[14] = <<52416, 31865>>
  /\ b_state[1] = TEST_STATE[1]

(***************************************************************************)
(* C29  next_nth_block(n) builds the State of 4 constant words, the 8 key   *)
(* words, the counter word counter + n and the 3 nonce words, runs the 10  *)
(* iterations of 4 column and 4 diagonal quarter rounds on a working copy  *)
(* and returns the word-wise wrapping sum of the State and the working     *)
(* copy; the Block is as before; for the Block of test_block the result    *)
(* is the block of RFC 8439 section 2.3.2 (word 0 0xe4e7f110, word 15      *)
(* 0x4e3c50a2).                                                            *)
(***************************************************************************)
\* test_block: the Block, its State, the State after inner_block, the block
TestBlock == Block_new(KeyNonces[1].key, TEST_BLOCK_NONCE, U32(1))
TestBlockState == next_nth_state(TestBlock, 0)
TestBlockInner == Rounds(TestBlockState, 10)
TestBlockBlock == next_nth_block(TestBlock, 0)

\* the quarter rounds of one iteration: the four columns, then the four
\* diagonals
C29_Rounds ==
  /\ Len(QR_ARGS) = 8
  /\ \A k \in 1..4 :
       /\ QR_ARGS[k] = <<k - 1, k + 3, k + 7, k + 11>>
       /\ QR_ARGS[k + 4]
            = <<k - 1, 4 + (k % 4), 8 + ((k + 1) % 4), 12 + ((k + 2) % 4)>>

\* the State of block and n, word by word
C29_Layout(block, n, state) ==
  /\ Len(state) = 16
  /\ SubSeq(state, 1, 4)
       = << <<24944, 30821>>, <<13088, 25710>>,
            <<31074, 11570>>, <<27424, 25972>> >>
  /\ FlatLeBytes(SubSeq(state, 5, 12)) = Block_key(block)
  /\ state[13] = wrapping_add(block.counter, U32(n))
  /\ FlatLeBytes(SubSeq(state, 14, 16)) = Block_nonce(block)

C29_Step ==
  b_call'[1] \in {"next_nth_state", "next_nth_block"} =>
    LET n == b_call'[2]
        state == next_nth_state(b_block, n)
        working == inner_block(state)
    IN  /\ b_block' = b_block
        /\ C29_Layout(b_block, n, state)
        /\ b_call'[1] = "next_nth_state" => b_state' = state
        /\ b_call'[1] = "next_nth_block" =>
             /\ Len(b_state') = 16
             /\ \A i \in 1..16 :
                  b_state'[i] = wrapping_add(state[i], working[i])

C29_BlockFunction ==
  /\ C29_Rounds
  /\ TestBlockState
       = << <<24944, 30821>>, <<13088, 25710>>, <<31074, 11570>>, <<27424, 25972>>,
          <<770, 256>>, <<1798, 1284>>, <<2826, 2312>>, <<3854, 3340>>,
          <<4882, 4368>>, <<5910, 5396>>, <<6938, 6424>>, <<7966, 7452>>,
          <<0, 1>>, <<2304, 0>>, <<18944, 0>>, <<0, 0>> >>
  /\ inner_block(TestBlockState) = TestBlockInner
  /\ TestBlockInner
       = << <<33655, 30891>>, <<57912, 55139>>, <<42618, 57886>>, <<22864, 47919>>,
          <<50418, 53447>>, <<64610, 47919>>, <<36768, 6396>>, <<16222, 51127>>,
          <<13138, 29122>>, <<62100, 35315>>, <<60093, 43260>>, <<33508, 28349>>,
          <<53660, 4788>>, <<45134, 5854>>, <<40579, 53451>>, <<20028, 20642>> >>
  /\ TestBlockBlock
       = << <<58599, 61712>>, <<5465, 15313>>, <<8157, 3920>>, <<50289, 8355>>,
          <<51188, 53703>>, <<872, 49203>>, <<39594, 8708>>, <<20076, 54467>>,
          <<18020, 33490>>, <<2474, 40711>>, <<1495, 49684>>, <<41474, 35801>>,
          <<53660, 4789>>, <<47438, 5854>>, <<59523, 53451>>, <<20028, 20642>> >>
  /\ TestBlockBlock[1] = <<58599, 61712>>
  /\ TestBlockBlock[16] = <<20028, 20642>>
  /\ [][C29_Step]_vars

\* next_nth_block(0) has given the block of the RFC for the Block of test_block
C29_Witness ==
  /\ b_call = <<"next_nth_block", 0>>
  /\ b_block = TestBlock
  /\ b_state[1] = <<58599, 61712>>
  /\ b_state[16] = <<20028, 20642>>
  /\ b_block.counter = U32(1)

(***************************************************************************)
(* C30  StreamCipher::new_x(key, nonce) of a 24-byte nonce is the cipher   *)
(* StreamCipher::new(subkey, N): subkey is HChaCha20(key, nonce[0..16]),   *)
(* the first and the last four words of the State of constant, key and the *)
(* 16 nonce bytes after the 10 double rounds, and N is four zero bytes and *)
(* nonce[16..24].  block().key() is the subkey and block().nonce() is N    *)
(* for as long as the cipher runs.                                         *)
(***************************************************************************)
\* test_h_cha_cha_20
HChaCha20Vector ==
  hchacha20(KeyNonces[1].key,
            <<0, 0, 0, 9, 0, 0, 0, 74, 0, 0, 0, 0, 49, 65, 89, 39>>)

C30_XChaCha20 ==
  /\ HChaCha20Vector
       = <<130, 65, 59, 66, 39, 178, 123, 254, 211, 14, 66, 80, 138, 135, 125, 115,
           160, 249, 228, 213, 138, 116, 168, 83, 193, 46, 196, 19, 38, 211, 236, 220>>
  /\ (c_cipher # None /\ Len(c_nonce) = X_NONCE_BYTES) =>
       LET words == Vec([i \in 1..4 |->
                           from_le_bytes(CONSTANT_BYTES, 4 * (i - 1))])
                      \o Vec([i \in 1..8 |-> from_le_bytes(c_key, 4 * (i - 1))])
                      \o Vec([i \in 1..4 |->
                                from_le_bytes(c_nonce, 4 * (i - 1))])
           after == inner_block(words)
           subkey == FlatLeBytes(SubSeq(after, 1, 4) \o SubSeq(after, 13, 16))
           N == <<0, 0, 0, 0>> \o SubSeq(c_nonce, 17, 24)
       IN  /\ hchacha20(c_key, SliceTo(c_nonce, 16)) = subkey
           /\ StreamCipher_new_x(c_key, c_nonce) = StreamCipher_new(subkey, N)
           /\ StreamCipher_new_x(c_key, c_nonce).block.counter = U32(1)
           /\ StreamCipher_new_x(c_key, c_nonce).leftover = None
           /\ c_plain = <<>> => c_cipher = StreamCipher_new(subkey, N)
           /\ Block_key(c_cipher.block) = subkey
           /\ Block_nonce(c_cipher.block) = N

\* the cipher new_x has made of the key and the 24-byte nonce has encrypted a
\* block and a byte
C30_Witness ==
  /\ c_cipher # None
  /\ Len(c_nonce) = X_NONCE_BYTES
  /\ Len(c_plain) = BLOCK_SIZE + 1
  /\ c_rt = None
  /\ Block_key(c_cipher.block) # c_key
  /\ SliceTo(Block_nonce(c_cipher.block), 4) = <<0, 0, 0, 0>>
  /\ c_cipher.block.counter = U32(3)

(***************************************************************************)
(* C25  The counter of a Block is kept modulo 2^32: next_nth_state(n) and  *)
(* next_nth_block(n) use (counter + n) mod 2^32, increment_counter(n)      *)
(* leaves (counter + n) mod 2^32, and a cipher that encrypts across the    *)
(* counter 2^32 - 1 goes on with the blocks of the counters 0, 1, ...      *)
(***************************************************************************)
\* a u32 as the integer congruent to it modulo 2^32 in -2^31 .. 2^31 - 1
Signed(w) ==
  IF w[1] >= 32768 THEN (w[1] - 65536) * 65536 + w[2] ELSE w[1] * 65536 + w[2]

\* the u32 congruent to v modulo 2^32, for -65536 <= v < 2^31
FromSigned(v) == IF v < 0 THEN <<65535, 65536 + v>> ELSE U32(v)

\* the keystream block of the run whose counter is v modulo 2^32
BlockAt(v) ==
  byte_vec(next_nth_block(Block_new(c_key, c_nonce, FromSigned(v)), 0))

C25_State ==
  c_cipher # None =>
    LET block == c_cipher.block
        c == Signed(block.counter)
    IN  /\ block.counter = FromSigned(c)
        /\ c_cipher.leftover # None =>
             byte_vec(c_cipher.leftover[1]) = BlockAt(c - 1)
        /\ \A n \in 0..MaxNth :
             /\ next_nth_state(block, n)[13] = FromSigned(c + n)
             /\ increment_counter(block, n).counter = FromSigned(c + n)
             /\ increment_counter(block, n).counter[1] \in 0..65535
             /\ increment_counter(block, n).counter[2] \in 0..65535
             /\ c + n <= 2 =>
                  byte_vec(next_nth_block(block, n)) = BlockAt(c + n)

C25_Step ==
  (c_cipher # None /\ c_plain' # c_plain) =>
    LET n == Len(c_plain') - Len(c_plain)
        c == Signed(c_cipher.block.counter)
        rem == IF c_cipher.leftover = None THEN 0
               ELSE BLOCK_SIZE - c_cipher.leftover[2]
        rest == IF n > rem THEN n - rem ELSE 0
        \* the keystream byte of the i-th byte of the call, 1 <= i <= n
        key_byte(i) ==
          IF i <= rem THEN BlockAt(c - 1)[BLOCK_SIZE - rem + i]
          ELSE BlockAt(c + ((i - rem - 1) \div BLOCK_SIZE))
                 [((i - rem - 1) % BLOCK_SIZE) + 1]
    IN  /\ Signed(c_cipher'.block.counter)
             = c + ((rest + BLOCK_SIZE - 1) \div BLOCK_SIZE)
        /\ Len(c_out') = Len(c_plain')
        /\ \A i \in 1..n :
             c_out'[Len(c_out) + i]
               = XorByte(c_plain'[Len(c_plain) + i], key_byte(i))

C25_CounterWraps == []C25_State /\ [][C25_Step]_vars

\* two blocks and a byte from the counter 2^32 - 2 on: the blocks of the
\* counters 2^32 - 2 and 2^32 - 1 and a byte of the block of the counter 0
C25_Witness ==
  /\ c_cipher # None
  /\ Len(c_plain) = 2 * BLOCK_SIZE + 1
  /\ c_cipher.block.counter = U32(1)
  /\ c_cipher.leftover # None
  /\ c_cipher.leftover[1] = next_nth_block(Block_new(c_key, c_nonce, U32(0)), 0)
  /\ SubSeq(c_out, BLOCK_SIZE + 1, 2 * BLOCK_SIZE)
       = xor(SubSeq(c_plain, BLOCK_SIZE + 1, 2 * BLOCK_SIZE),
             byte_vec(next_nth_block(
                        Block_new(c_key, c_nonce, LAST_COUNTERS[2]), 0)))

(***************************************************************************)
(* C21  For every buffer length and every prior state of the cipher,       *)
(* encrypt_ with ParOrNot::Parallel leaves the bytes and the cipher        *)
(* (counter and leftover) that encrypt_ with ParOrNot::Serial leaves.      *)
(***************************************************************************)
C21_Step ==
  p_call'[1] = "encrypt_" =>
    LET serial == encrypt_(p_cipher, p_in', FALSE)
        parallel == encrypt_(p_cipher, p_in', TRUE)
    IN  /\ p_call'[2] => (p_cipher' = parallel.self /\ p_out' = parallel.buf)
        /\ p_cipher' = serial.self
        /\ p_out' = serial.buf
        /\ Len(p_out') = Len(p_in')

C21_ParallelIsSerial == [][C21_Step]_vars

\* the parallel path on a buffer of two outer chunks, 64 and 1 blocks and 4
\* bytes after the byte the leftover takes, by a cipher with a leftover
C21_Witness ==
  /\ p_call = <<"encrypt_", TRUE>>
  /\ Len(p_in) = BLOCK_SIZE * PAR_OUTER_CHUNK_SIZE + BLOCK_SIZE + 5
  /\ p_cipher.block.counter = U32(69)
  /\ p_cipher.leftover # None
  /\ p_cipher.leftover[2] = 4

(***************************************************************************)
(* C26  encrypt takes the parallel path exactly when the number of full    *)
(* 64-byte blocks the call processes, after the bytes the leftover takes,  *)
(* is more than PAR_BLOCKS_THRESHOLD.                                      *)
(***************************************************************************)
C26_Step ==
  p_call'[1] = "encrypt" =>
    LET n == Len(p_in')
        rem == IF p_cipher.leftover = None THEN 0
               ELSE BLOCK_SIZE - p_cipher.leftover[2]
        rest == IF n > rem THEN n - rem ELSE 0
        full == rest \div BLOCK_SIZE
    IN  p_call'[2] <=> (PAR_BLOCKS_THRESHOLD < full)

C26_ParallelOnFullBlocks == [][C26_Step]_vars

(***************************************************************************)
(* C27  In the parallel path, whatever the order of the workers' steps,    *)
(* every full chunk k is XORed exactly once, with the block of counter +   *)
(* k, by the worker of its own outer chunk and no other; the counter and   *)
(* the leftover do not change and the last partial chunk is not touched    *)
(* while workers run; the XOR of the partial chunk, the new leftover and   *)
(* the increment of the counter come after all workers are done.           *)
(***************************************************************************)
\* while the workers run
C27_Running ==
  t_pc = "workers" =>
    /\ p_cipher.block = t_prior.block
    /\ p_cipher.leftover = None
    /\ Len(p_out) = Len(p_in)
    /\ \A k \in 1..Len(t_xors) : Len(t_xors[k]) <= 1
    /\ \A i \in 1..Len(t_next) :
         \A j \in 1..inner_count(Len(p_in) - t_pos, i) :
           Len(t_xors[j + (i - 1) * PAR_OUTER_CHUNK_SIZE])
             = (IF j <= t_next[i] THEN 1 ELSE 0)
    /\ SliceFrom(p_out, t_pos + Len(t_xors) * BLOCK_SIZE)
         = SliceFrom(p_in, t_pos + Len(t_xors) * BLOCK_SIZE)

\* a step of a worker
C27_Work ==
  (t_pc = "workers" /\ t_pc' = "workers" /\ t_xors' # t_xors) =>
    \E k \in 0..(Len(t_xors) - 1) :
      LET from == t_pos + k * BLOCK_SIZE
          block == byte_vec(next_nth_block(
                              [t_prior.block EXCEPT !.counter =
                                 wrapping_add(t_prior.block.counter, U32(k))],
                              0))
      IN  /\ t_xors[k + 1] = <<>>
          /\ t_xors' = [t_xors EXCEPT ![k + 1] =
                                 << <<k \div PAR_OUTER_CHUNK_SIZE, k>> >>]
          /\ SubSeq(p_out', from + 1, from + BLOCK_SIZE)
               = xor(SubSeq(p_in, from + 1, from + BLOCK_SIZE), block)
          /\ SubSeq(p_out', 1, from) = SubSeq(p_out, 1, from)
          /\ SliceFrom(p_out', from + BLOCK_SIZE)
               = SliceFrom(p_out, from + BLOCK_SIZE)
          /\ p_cipher' = p_cipher

\* the step after the workers
C27_Join ==
  (t_pc = "workers" /\ t_pc' = "done") =>
    LET serial == encrypt_(t_prior, p_in, FALSE)
        rest == Len(p_in) - t_pos
    IN  /\ \A k \in 1..Len(t_xors) : Len(t_xors[k]) = 1
        /\ Len(t_xors) = rest \div BLOCK_SIZE
        /\ t_xors' = t_xors
        /\ p_cipher' = serial.self
        /\ p_out' = serial.buf
        /\ p_cipher'.block.counter
             = wrapping_add(t_prior.block.counter,
                            U32((rest + BLOCK_SIZE - 1) \div BLOCK_SIZE))
        /\ (rest % BLOCK_SIZE # 0) <=> (p_cipher'.leftover # None)

C27_Workers == []C27_Running /\ [][C27_Work]_vars /\ [][C27_Join]_vars

\* a call on two outer chunks, of 64 blocks and of 1 block, and a partial
\* chunk is through: workers, then the join
C27_Witness ==
  /\ t_pc = "done"
  /\ Len(t_next) = 2
  /\ t_next = <<PAR_OUTER_CHUNK_SIZE, 1>>
  /\ t_xors[PAR_OUTER_CHUNK_SIZE + 1] = << <<1, PAR_OUTER_CHUNK_SIZE>> >>
  /\ t_prior.leftover # None
  /\ p_cipher.leftover # None
  /\ p_cipher.leftover[2] = 4

(***************************************************************************)
(* C31  hchacha20(key, n16) builds the State of the four constant words,   *)
(* the eight key words, the first 4 bytes of n16 as the little-endian      *)
(* counter word and its other 12 bytes as the three nonce words, runs      *)
(* inner_block (10 double rounds) on it and does not add the initial state *)
(* back; the result is the little-endian bytes of the words 0..3 and then  *)
(* of the words 12..15.  For the key 00..1f and the nonce of               *)
(* test_h_cha_cha_20 the result begins 82 41 3b 42 and ends 26 d3 ec dc.   *)
(***************************************************************************)
C31_HChaCha20 ==
  (b_call # None /\ b_call[1] = "hchacha20") =>
    LET key == Block_key(b_block)
        n16 == HNonces[b_call[2]]
        state == Vec([i \in 1..4 |->
                        from_le_bytes(CONSTANT_BYTES, 4 * (i - 1))])
                   \o Vec([i \in 1..8 |-> from_le_bytes(key, 4 * (i - 1))])
                   \o << from_le_bytes(SubSeq(n16, 1, 4), 0) >>
                   \o Vec([i \in 1..3 |->
                             from_le_bytes(SubSeq(n16, 5, 16), 4 * (i - 1))])
        after == inner_block(state)
        added == State_add(state, after)
    IN  /\ Len(b_key) = KEY_BYTES
        /\ \A w \in 1..4 :
             /\ SubSeq(b_key, 4 * w - 3, 4 * w) = to_le_bytes(after[w])
             /\ SubSeq(b_key, 4 * w + 13, 4 * w + 16)
                  = to_le_bytes(after[w + 12])
        /\ \E w \in 1..4 :
             SubSeq(b_key, 4 * w - 3, 4 * w) # to_le_bytes(added[w])
        /\ (b_call[2] = 1 /\ b_depth = 0 /\ b_state = TEST_STATE) =>
             after = Rounds(state, 10)
        /\ (b_call[2] = 1 /\ key = Vec([i \in 1..KEY_BYTES |-> i - 1])) =>
             /\ SubSeq(b_key, 1, 4) = <<130, 65, 59, 66>>
             /\ SubSeq(b_key, 29, 32) = <<38, 211, 236, 220>>

\* hchacha20 has run on the key and the nonce of test_h_cha_cha_20
C31_Witness ==
  /\ b_call = <<"hchacha20", 1>>
  /\ HNonces[1][8] = 74
  /\ Block_key(b_block) = Vec([i \in 1..KEY_BYTES |-> i - 1])
  /\ SubSeq(b_key, 1, 4) = <<130, 65, 59, 66>>
  /\ SubSeq(b_key, 29, 32) = <<38, 211, 236, 220>>

(***************************************************************************)
(* C32  After every update call, whatever the update calls before it: cum  *)
(* is less than p = 2^130 - 5, the block buffer holds at most 15 bytes,    *)
(* namely the last (T mod 16) bytes received, and cum is the fold of the   *)
(* first floor(T / 16) blocks of 16 bytes, T being the number of bytes     *)
(* received so far.                                                        *)
(***************************************************************************)
C32_HasherInvariant ==
  m_hasher # None =>
    LET T == Len(m_msg)
        full == (T \div BLOCK_BYTES) * BLOCK_BYTES
    IN  /\ ~BigGe(m_hasher.cum, P1305)
        /\ m_hasher.cum = BigNorm(m_hasher.cum)
        /\ Len(m_hasher.block) <= BLOCK_BYTES - 1
        /\ Len(m_hasher.block) = T % BLOCK_BYTES
        /\ m_hasher.block = SubSeq(m_msg, full + 1, T)
        /\ m_hasher.cum = mac_chunks(m_hasher.c, <<>>, SliceTo(m_msg, full))
        /\ m_hasher.c = calc_const(m_key)

\* 15 bytes are in the buffer after one block was folded
C32_Witness ==
  /\ m_hasher # None
  /\ Len(m_msg) = 2 * BLOCK_BYTES - 1
  /\ Len(m_hasher.block) = BLOCK_BYTES - 1
  /\ m_hasher.cum # <<>>
  /\ m_tag = None

(***************************************************************************)
(* C33  The tag: every block c of the message (16 bytes, or the shorter    *)
(* last block) is folded as cum = ((cum + LE(c, 0x01)) * r) mod p, the     *)
(* byte 0x01 directly after the bytes of c; the tag is the 16 low-order    *)
(* little-endian bytes of cum + s, with zero bytes after them when         *)
(* cum + s has fewer than 16; the tag of the empty message is s.           *)
(***************************************************************************)
RECURSIVE C33_Fold(_, _, _)
C33_Fold(r, cum, msg) ==
  IF msg = <<>> THEN cum
  ELSE LET n == Min(Len(msg), BLOCK_BYTES)
           le == BigNorm(SubSeq(msg, 1, n) \o <<1>>)
       IN  C33_Fold(r, BigRemP(BigMul(BigAdd(cum, le), r)),
                    SubSeq(msg, n + 1, Len(msg)))

C33_Low16(x) == Vec([i \in 1..BLOCK_BYTES |-> Digit(x, i)])

C33_Tag ==
  /\ poly1305_mac(TEST_MAC_KEY, TEST_MAC_MSG)
       = <<168, 6, 29, 193, 48, 81, 54, 198, 194, 43, 139, 175, 12, 1, 39, 169>>
  /\ m_tag # None =>
       LET r == BigNorm(clamp_r(SubSeq(m_key, 1, BLOCK_BYTES)))
           s == BigNorm(SubSeq(m_key, BLOCK_BYTES + 1, KEY_BYTES))
           tag == C33_Low16(BigAdd(C33_Fold(r, <<>>, m_msg), s))
       IN  /\ Len(m_tag) = BLOCK_BYTES
           /\ m_tag = tag
           /\ poly1305_mac(m_key, m_msg) = tag
           /\ m_msg = <<>> => m_tag = SubSeq(m_key, BLOCK_BYTES + 1, KEY_BYTES)
           /\ (m_key = SMALL_MAC_KEY /\ m_msg # <<>>
                 /\ Len(m_msg) < BLOCK_BYTES - 1) =>
                m_tag = C33_Low16(BigAdd(BigNorm(m_msg \o <<1>>), <<254, 255>>))

\* finalize has given the tag of a message of one byte under the key of r = 1:
\* cum + s = 0x011d + 0xfffe has three bytes, thirteen zero bytes follow them
C33_Witness ==
  /\ m_tag # None
  /\ m_key = SMALL_MAC_KEY
  /\ m_msg = <<29>>
  /\ m_hasher.block = <<29>>
  /\ m_tag = <<27, 1, 1>> \o Vec([i \in 1..13 |-> 0])

(***************************************************************************)
(* C34  EncryptCursor::encrypt(from, to) with an empty `to` returns        *)
(* {read: 0, written: 0} and leaves the cursor as it was, in the nonce     *)
(* state and in UserData: no nonce byte is marked emitted, the state       *)
(* variant stays, no keystream byte is used, and the calls after it give   *)
(* what they would have given without it.                                  *)
(***************************************************************************)
C34_Call ==
  en # None =>
    \A n \in FromLens :
      Len(k_consumed) + n <= MaxCursorPlain =>
        LET from == PlainSlice(KCfg.seed, Len(k_consumed), n)
            a == EncryptCursor_encrypt(en, from, 0)
        IN  /\ a.read = 0
            /\ a.written = 0
            /\ a.to = <<>>
            /\ a.self = en
            /\ \A to_len \in ToLens :
                 EncryptCursor_encrypt(a.self, from, to_len)
                   = EncryptCursor_encrypt(en, from, to_len)

C34_Step ==
  (k_en' # None /\ k_en' # k_en) =>
    /\ k_en' = <<0, 0>>
    /\ en' = en
    /\ en'.state.tag = en.state.tag
    /\ en.state.tag = "Nonce" =>
         remaining_nonce(en'.state) = remaining_nonce(en.state)
    /\ k_wire' = k_wire
    /\ k_consumed' = k_consumed

C34_EmptyTo == []C34_Call /\ [][C34_Step]_vars

\* the last encrypt call had an empty `to`, the cursor in UserData with one
\* byte of the keystream used
C34_Witness ==
  /\ en # None
  /\ k_en = <<0, 0>>
  /\ en.state.tag = "UserData"
  /\ Len(k_consumed) = 1
  /\ Len(k_wire) = Len(KCfg.nonce) + 1

(***************************************************************************)
(* C35  Every call of ChaCha20WriteState::poll returns, Ready or Pending,  *)
(* after finitely many polls of the writer under it, whatever that writer  *)
(* answers, a writer that answers Ready(Ok(0)) to a staged slice that is   *)
(* not empty included: no poll of a run is one whose loop does not end.    *)
(***************************************************************************)
C35_PollReturns ==
  (writer # None /\ w_result # None) =>
    /\ w_result # Diverges
    /\ w_result = Pending \/ w_result[1] \in {"Ok", "Err"}

(***************************************************************************)
(* C36  The keystream block of counter 0, whose first 32 bytes are the     *)
(* Poly1305 one-time key of poly1305_key_gen, is never XORed into the data *)
(* of a StreamCipher made by new or new_x, whatever the encrypt calls, as  *)
(* long as fewer than 2^32 - 1 blocks are made: the data of block number b *)
(* (from 1) is XORed with the keystream block of counter b, and the        *)
(* counter of the cipher only grows.                                       *)
(***************************************************************************)
C36_State ==
  c_cipher # None =>
    LET N == Len(c_plain)
        blocks == (N + BLOCK_SIZE - 1) \div BLOCK_SIZE
        zero == [c_cipher.block EXCEPT !.counter = U32(0)]
        ks(b) == byte_vec(next_nth_block(zero, b))
    IN  /\ poly1305_key_gen(Block_key(c_cipher.block),
                            Block_nonce(c_cipher.block))
             = SliceTo(ks(0), KEY_BYTES)
        /\ c_cipher.block.counter = U32(1 + blocks)
        /\ \A b \in 1..blocks :
             LET lo == BLOCK_SIZE * (b - 1) + 1
                 hi == Min(N, BLOCK_SIZE * b)
             IN  /\ SubSeq(c_out, lo, hi) = xor(SubSeq(c_plain, lo, hi), ks(b))
                 /\ ks(b) # ks(0)
        /\ c_cipher.leftover # None =>
             /\ c_cipher.leftover[1] = next_nth_block(zero, blocks)
             /\ c_cipher.leftover[1] # next_nth_block(zero, 0)

C36_Step ==
  (c_cipher # None /\ c_cipher' # c_cipher) =>
    /\ c_cipher.block.counter[1] = 0
    /\ c_cipher'.block.counter[1] = 0
    /\ c_cipher'.block.counter[2] >= c_cipher.block.counter[2]
    /\ c_cipher.block.counter[2] >= 1

C36_CounterZeroUnused == []C36_State /\ [][C36_Step]_vars

\* a cipher of new_x has encrypted two blocks and a byte in calls of 1 and
\* 128 bytes or the like: the blocks of counter 1, 2 and 3 are in use
C36_Witness ==
  /\ c_cipher # None
  /\ Len(c_nonce) = X_NONCE_BYTES
  /\ Len(c_out) = 2 * BLOCK_SIZE + 1
  /\ c_cipher.block.counter = U32(4)
  /\ c_cipher.leftover # None
  /\ c_cipher.leftover[2] = 1
  /\ c_rt = None

(***************************************************************************)
(* C37  Whenever DecryptCursor::decrypt returns StillAtNonce the cursor is *)
(* still in the nonce state and remaining_nonce_size() is above 0; and a   *)
(* call that absorbs the last missing nonce byte returns WithUserData,     *)
(* also when buf holds exactly the missing nonce bytes and nothing more.   *)
(***************************************************************************)
C37_StillAtNonce ==
  de # None =>
    /\ k_result = StillAtNonce =>
         /\ de.state.tag = "Nonce"
         /\ DecryptCursor_remaining_nonce_size(de) > 0
    /\ \A n \in ChunkLens :
         (k_fed + n <= Len(k_wire) /\ de.state.tag = "Nonce") =>
           LET a == DecryptCursor_decrypt(de, SubSeq(k_wire, k_fed + 1,
                                                      k_fed + n))
           IN  /\ a.result = StillAtNonce =>
                    /\ a.self.state.tag = "Nonce"
                    /\ DecryptCursor_remaining_nonce_size(a.self) > 0
               /\ a.self.state.tag = "UserData" =>
                    a.result
                      = WithUserData(DecryptCursor_remaining_nonce_size(de))

(***************************************************************************)
(* C38  DecryptCursor::poly1305_key() is None while the nonce is not       *)
(* complete; once the cursor has absorbed the whole nonce of an            *)
(* EncryptCursor of the same key and variant it is Some(k), k being the    *)
(* poly1305_key() of that EncryptCursor, read in the nonce state (as the   *)
(* cursor was built) or in UserData (as it is now).                        *)
(***************************************************************************)
C38_SameKey ==
  (de # None /\ en # None) =>
    /\ de.state.tag = "Nonce" => DecryptCursor_poly1305_key(de) = None
    /\ de.state.tag = "UserData" =>
         /\ Len(DecryptCursor_poly1305_key(de)) = 1
         /\ DecryptCursor_poly1305_key(de)[1] = EncryptCursor_poly1305_key(en)
         /\ DecryptCursor_poly1305_key(de)[1]
              = EncryptCursor_poly1305_key(
                  EncryptCursor_new(KCfg.key, KCfg.nonce))

====
